---- MODULE Spec2Model ----
(***************************************************************************)
(* Budget planner: the budget ledger (categories and their expenses), the  *)
(* form validators and the persistence-backed category operations.         *)
(*                                                                         *)
(* Strings are sequences of one-character strings, so that trim() and      *)
(* toLowerCase() are computed as the JavaScript does.  Money is an integer *)
(* number of shillings.  A Date is a record [valid, day], day being the    *)
(* offset in days from the day of the call.                                *)
(***************************************************************************)
EXTENDS Integers, Sequences, FiniteSets, TLC

VARIABLES categories, now, last, db, income,
          optimisticCategories, phase, storage, storageAvailable, error,
          formErrors, editingCategory, errors, editingExpense, pending,
          isLoading, retry, incomes

\* the state of the React components: the optimistic list, the rendering
\* phase, the stored copy, the provider's error and the forms; the call of
\* withRetry and the incomes table
uiVars == <<optimisticCategories, phase, storage, storageAvailable, error,
            formErrors, editingCategory, errors, editingExpense, pending,
            isLoading, retry, incomes>>

vars == <<categories, now, last, db, income, uiVars>>

-----------------------------------------------------------------------------
(* Bounds of the model *)

MaxCats == 2

MaxExpenses == 2

MaxNow == 3

MaxRows == 2

MaxCatsV == 1

MaxExpensesV == 1
\* categories and expenses of a ledger of the id-generation runs
MaxCatsId == 2
MaxExpensesId == 2
\* gross pays: whole thousands of shillings up to MaxThousands, and every
\* amount within BoundaryWidth cents of zero and of the two bracket limits
MaxThousands == 40
BoundaryWidth == 20
\* expenses of the category of the status runs
MaxExpensesS == 2

-----------------------------------------------------------------------------
(* Strings *)

Upper == {"A","B","C","D","E","F","G","H","I","J","K","L","M",
          "N","O","P","Q","R","S","T","U","V","W","X","Y","Z"}

LowerOf ==
  "A" :> "a" @@ "B" :> "b" @@ "C" :> "c" @@ "D" :> "d" @@ "E" :> "e" @@
  "F" :> "f" @@ "G" :> "g" @@ "H" :> "h" @@ "I" :> "i" @@ "J" :> "j" @@
  "K" :> "k" @@ "L" :> "l" @@ "M" :> "m" @@ "N" :> "n" @@ "O" :> "o" @@
  "P" :> "p" @@ "Q" :> "q" @@ "R" :> "r" @@ "S" :> "s" @@ "T" :> "t" @@
  "U" :> "u" @@ "V" :> "v" @@ "W" :> "w" @@ "X" :> "x" @@ "Y" :> "y" @@
  "Z" :> "z"

\* String.prototype.toLowerCase
toLowerCase(s) == [i \in 1..Len(s) |-> IF s[i] \in Upper THEN LowerOf[s[i]] ELSE s[i]]

RECURSIVE trimStart(_)
trimStart(s) == IF s # <<>> /\ Head(s) = " " THEN trimStart(Tail(s)) ELSE s

RECURSIVE trimEnd(_)
trimEnd(s) ==
  IF s # <<>> /\ s[Len(s)] = " " THEN trimEnd(SubSeq(s, 1, Len(s) - 1)) ELSE s

\* String.prototype.trim
trim(s) == trimEnd(trimStart(s))

\* a string of n copies of the character c
Rep(c, n) == [i \in 1..n |-> c]

-----------------------------------------------------------------------------
(* Ledger data *)

NoId == <<"none", 0>>

NoDate == [valid |-> FALSE, day |-> 0]

\* Date.prototype.toISOString of a valid Date
toISOString(d) == <<"ISO", d.day>>

\* category.expenses.reduce((total, expense) => total + expense.amount, 0)
RECURSIVE reduceAmounts(_, _)
reduceAmounts(expenses, total) ==
  IF expenses = <<>> THEN total
  ELSE reduceAmounts(Tail(expenses), total + Head(expenses).amount)

calculateCategorySpending(category) == reduceAmounts(category.expenses, 0)

\* Array.prototype.findIndex, 1-based; 0 stands for -1
findIndex(s, P(_)) ==
  IF \E i \in 1..Len(s) : P(s[i])
  THEN CHOOSE i \in 1..Len(s) : P(s[i]) /\ \A j \in 1..(i - 1) : ~P(s[j])
  ELSE 0

\* Array.prototype.filter
filter(s, P(_)) == SelectSeq(s, P)

\* Array.prototype.some
some(s, P(_)) == \E i \in 1..Len(s) : P(s[i])

Thrown(categories0, message) ==
  [ok |-> FALSE, err |-> message, out |-> <<>>, inp |-> categories0]

Returned(categories0, updated) ==
  [ok |-> TRUE, err |-> "", out |-> updated, inp |-> categories0]

DEFAULT_CATEGORIES ==
  << <<"H","o","u","s","e"," ","R","e","n","t">>,
     <<"T","r","a","n","s","p","o","r","t">>,
     <<"S","a","v","i","n","g","s">>,
     <<"F","o","o","d">>,
     <<"O","t","h","e","r"," ","E","x","p","e","n","d","i","t","u","r","e","s">> >>

initializeDefaultCategories ==
  [index \in 1..Len(DEFAULT_CATEGORIES) |->
     [id |-> <<"default", index>>,
      name |-> DEFAULT_CATEGORIES[index],
      plannedAmount |-> 0,
      actualSpent |-> 0,
      expenses |-> <<>>]]

generateCategoryId(clock) == <<"category", clock>>

generateExpenseId(clock) == <<"expense", clock>>

-----------------------------------------------------------------------------
(* Budget manager: operations on a snapshot of the category collection *)

\* createCategory that compares the names as written
createCategory_caseSensitive(cats, name, plannedAmount, clock) ==
  IF name = <<>> \/ Len(trim(name)) = 0
  THEN Thrown(cats, "Category name cannot be empty")
  ELSE LET trimmedName == trim(name)
           isDuplicate == some(cats, LAMBDA category : category.name = trimmedName)
       IN IF isDuplicate THEN Thrown(cats, "Category name already exists")
          ELSE IF plannedAmount < 0
          THEN Thrown(cats, "Planned amount must be a positive number")
          ELSE LET newCategory ==
                     [id |-> generateCategoryId(clock),
                      name |-> trimmedName,
                      plannedAmount |-> plannedAmount,
                      actualSpent |-> 0,
                      expenses |-> <<>>]
               IN Returned(cats, Append(cats, newCategory))

\* createCategory that puts the new category first
createCategory_prepend(cats, name, plannedAmount, clock) ==
  IF name = <<>> \/ Len(trim(name)) = 0
  THEN Thrown(cats, "Category name cannot be empty")
  ELSE LET trimmedName == trim(name)
           isDuplicate ==
             some(cats, LAMBDA category :
                    toLowerCase(category.name) = toLowerCase(trimmedName))
       IN IF isDuplicate THEN Thrown(cats, "Category name already exists")
          ELSE IF plannedAmount < 0
          THEN Thrown(cats, "Planned amount must be a positive number")
          ELSE LET newCategory ==
                     [id |-> generateCategoryId(clock),
                      name |-> trimmedName,
                      plannedAmount |-> plannedAmount,
                      actualSpent |-> 0,
                      expenses |-> <<>>]
               IN Returned(cats, <<newCategory>> \o cats)

createCategory(cats, name, plannedAmount, clock) ==
  IF name = <<>> \/ Len(trim(name)) = 0
  THEN Thrown(cats, "Category name cannot be empty")
  ELSE LET trimmedName == trim(name)
           isDuplicate ==
             some(cats, LAMBDA category :
                    toLowerCase(category.name) = toLowerCase(trimmedName))
       IN IF isDuplicate THEN Thrown(cats, "Category name already exists")
          ELSE IF plannedAmount < 0
          THEN Thrown(cats, "Planned amount must be a positive number")
          ELSE LET newCategory ==
                     [id |-> generateCategoryId(clock),
                      name |-> trimmedName,
                      plannedAmount |-> plannedAmount,
                      actualSpent |-> 0,
                      expenses |-> <<>>]
               IN Returned(cats, Append(cats, newCategory))

\* updateCategory whose duplicate check does not skip the edited category
updateCategory_noExclude(cats, id, name, plannedAmount) ==
  LET categoryIndex == findIndex(cats, LAMBDA category : category.id = id)
  IN IF categoryIndex = 0 THEN Thrown(cats, "Category not found")
     ELSE IF name = <<>> \/ Len(trim(name)) = 0
     THEN Thrown(cats, "Category name cannot be empty")
     ELSE LET trimmedName == trim(name)
              isDuplicate ==
                \E index \in 1..Len(cats) :
                   toLowerCase(cats[index].name) = toLowerCase(trimmedName)
          IN IF isDuplicate THEN Thrown(cats, "Category name already exists")
             ELSE IF plannedAmount < 0
             THEN Thrown(cats, "Planned amount must be a positive number")
             ELSE Returned(cats,
                    [cats EXCEPT ![categoryIndex] =
                       [@ EXCEPT !.name = trimmedName,
                                 !.plannedAmount = plannedAmount]])

\* updateCategory that adds the amount to the planned amount
updateCategory_accumulate(cats, id, name, plannedAmount) ==
  LET categoryIndex == findIndex(cats, LAMBDA category : category.id = id)
  IN IF categoryIndex = 0 THEN Thrown(cats, "Category not found")
     ELSE IF name = <<>> \/ Len(trim(name)) = 0
     THEN Thrown(cats, "Category name cannot be empty")
     ELSE LET trimmedName == trim(name)
              isDuplicate ==
                \E index \in 1..Len(cats) :
                   /\ index # categoryIndex
                   /\ toLowerCase(cats[index].name) = toLowerCase(trimmedName)
          IN IF isDuplicate THEN Thrown(cats, "Category name already exists")
             ELSE IF plannedAmount < 0
             THEN Thrown(cats, "Planned amount must be a positive number")
             ELSE Returned(cats,
                    [cats EXCEPT ![categoryIndex] =
                       [@ EXCEPT !.name = trimmedName,
                                 !.plannedAmount = @ + plannedAmount]])

updateCategory(cats, id, name, plannedAmount) ==
  LET categoryIndex == findIndex(cats, LAMBDA category : category.id = id)
  IN IF categoryIndex = 0 THEN Thrown(cats, "Category not found")
     ELSE IF name = <<>> \/ Len(trim(name)) = 0
     THEN Thrown(cats, "Category name cannot be empty")
     ELSE LET trimmedName == trim(name)
              isDuplicate ==
                \E index \in 1..Len(cats) :
                   /\ index # categoryIndex
                   /\ toLowerCase(cats[index].name) = toLowerCase(trimmedName)
          IN IF isDuplicate THEN Thrown(cats, "Category name already exists")
             ELSE IF plannedAmount < 0
             THEN Thrown(cats, "Planned amount must be a positive number")
             ELSE Returned(cats,
                    [cats EXCEPT ![categoryIndex] =
                       [@ EXCEPT !.name = trimmedName,
                                 !.plannedAmount = plannedAmount]])

\* deleteCategory whose filter keeps the wrong side
deleteCategory_inverted(cats, id) ==
  LET categoryExists == some(cats, LAMBDA category : category.id = id)
  IN IF ~categoryExists THEN Thrown(cats, "Category not found")
     ELSE Returned(cats, filter(cats, LAMBDA category : category.id = id))

deleteCategory(cats, id) ==
  LET categoryExists == some(cats, LAMBDA category : category.id = id)
  IN IF ~categoryExists THEN Thrown(cats, "Category not found")
     ELSE Returned(cats, filter(cats, LAMBDA category : category.id # id))

-----------------------------------------------------------------------------
(* Expense tracker: operations on a snapshot of the category collection *)

\* the search that looks into the first category only
locateExpense_firstOnly(cats, expenseId) ==
  IF cats # <<>>
     /\ findIndex(cats[1].expenses, LAMBDA expense : expense.id = expenseId) # 0
  THEN <<1, findIndex(cats[1].expenses, LAMBDA expense : expense.id = expenseId)>>
  ELSE <<0, 0>>

\* the first category holding an expense with the id, and the expense's index
\* in it (the for loop with break); <<0, 0>> stands for <<-1, -1>>
locateExpense(cats, expenseId) ==
  LET holds(i) == findIndex(cats[i].expenses, LAMBDA expense : expense.id = expenseId) # 0
  IN IF \E i \in 1..Len(cats) : holds(i)
     THEN LET i == CHOOSE k \in 1..Len(cats) :
                     holds(k) /\ \A j \in 1..(k - 1) : ~holds(j)
          IN <<i, findIndex(cats[i].expenses, LAMBDA expense : expense.id = expenseId)>>
     ELSE <<0, 0>>

\* addExpense that adds the amount to the stored actualSpent
addExpense_increment(cats, categoryId, amount, description, date, clock) ==
  IF amount <= 0 THEN Thrown(cats, "Expense amount must be a positive number")
  ELSE IF description = <<>> \/ Len(trim(description)) = 0
  THEN Thrown(cats, "Expense description cannot be empty")
  ELSE LET categoryIndex == findIndex(cats, LAMBDA category : category.id = categoryId)
       IN IF categoryIndex = 0 THEN Thrown(cats, "Category not found")
          ELSE IF ~date.valid THEN Thrown(cats, "Invalid time value")
          ELSE LET newExpense ==
                     [id |-> generateExpenseId(clock),
                      categoryId |-> categoryId,
                      amount |-> amount,
                      description |-> trim(description),
                      date |-> toISOString(date)]
                   expenses == Append(cats[categoryIndex].expenses, newExpense)
                   category ==
                     [cats[categoryIndex] EXCEPT
                        !.expenses = expenses,
                        !.actualSpent = @ + amount]
               IN Returned(cats, [cats EXCEPT ![categoryIndex] = category])

addExpense(cats, categoryId, amount, description, date, clock) ==
  IF amount <= 0 THEN Thrown(cats, "Expense amount must be a positive number")
  ELSE IF description = <<>> \/ Len(trim(description)) = 0
  THEN Thrown(cats, "Expense description cannot be empty")
  ELSE LET categoryIndex == findIndex(cats, LAMBDA category : category.id = categoryId)
       IN IF categoryIndex = 0 THEN Thrown(cats, "Category not found")
          ELSE IF ~date.valid THEN Thrown(cats, "Invalid time value")
          ELSE LET newExpense ==
                     [id |-> generateExpenseId(clock),
                      categoryId |-> categoryId,
                      amount |-> amount,
                      description |-> trim(description),
                      date |-> toISOString(date)]
                   expenses == Append(cats[categoryIndex].expenses, newExpense)
                   category ==
                     [cats[categoryIndex] EXCEPT
                        !.expenses = expenses,
                        !.actualSpent = reduceAmounts(expenses, 0)]
               IN Returned(cats, [cats EXCEPT ![categoryIndex] = category])

\* updateExpense that writes into the caller's category
updateExpense_inPlace(cats, expenseId, amount, description, date) ==
  IF amount <= 0 THEN Thrown(cats, "Expense amount must be a positive number")
  ELSE IF description = <<>> \/ Len(trim(description)) = 0
  THEN Thrown(cats, "Expense description cannot be empty")
  ELSE LET found == locateExpense(cats, expenseId)
           categoryIndex == found[1]
           expenseIndex == found[2]
       IN IF categoryIndex = 0 \/ expenseIndex = 0 THEN Thrown(cats, "Expense not found")
          ELSE IF ~date.valid THEN Thrown(cats, "Invalid time value")
          ELSE LET expenses ==
                     [cats[categoryIndex].expenses EXCEPT ![expenseIndex] =
                        [@ EXCEPT !.amount = amount,
                                  !.description = trim(description),
                                  !.date = toISOString(date)]]
                   category ==
                     [cats[categoryIndex] EXCEPT
                        !.expenses = expenses,
                        !.actualSpent = reduceAmounts(expenses, 0)]
                   updated == [cats EXCEPT ![categoryIndex] = category]
               IN [Returned(cats, updated) EXCEPT !.inp = updated]

updateExpense(cats, expenseId, amount, description, date) ==
  IF amount <= 0 THEN Thrown(cats, "Expense amount must be a positive number")
  ELSE IF description = <<>> \/ Len(trim(description)) = 0
  THEN Thrown(cats, "Expense description cannot be empty")
  ELSE LET found == locateExpense(cats, expenseId)
           categoryIndex == found[1]
           expenseIndex == found[2]
       IN IF categoryIndex = 0 \/ expenseIndex = 0 THEN Thrown(cats, "Expense not found")
          ELSE IF ~date.valid THEN Thrown(cats, "Invalid time value")
          ELSE LET expenses ==
                     [cats[categoryIndex].expenses EXCEPT ![expenseIndex] =
                        [@ EXCEPT !.amount = amount,
                                  !.description = trim(description),
                                  !.date = toISOString(date)]]
                   category ==
                     [cats[categoryIndex] EXCEPT
                        !.expenses = expenses,
                        !.actualSpent = reduceAmounts(expenses, 0)]
               IN Returned(cats, [cats EXCEPT ![categoryIndex] = category])

\* deleteExpense that removes the expense and keeps the old actualSpent
deleteExpense_stale(cats, expenseId) ==
  LET found == locateExpense(cats, expenseId)
      categoryIndex == found[1]
      expenseIndex == found[2]
  IN IF categoryIndex = 0 \/ expenseIndex = 0 THEN Thrown(cats, "Expense not found")
     ELSE LET expenses ==
                filter(cats[categoryIndex].expenses,
                       LAMBDA expense : expense.id # expenseId)
              category == [cats[categoryIndex] EXCEPT !.expenses = expenses]
          IN Returned(cats, [cats EXCEPT ![categoryIndex] = category])

deleteExpense(cats, expenseId) ==
  LET found == locateExpense(cats, expenseId)
      categoryIndex == found[1]
      expenseIndex == found[2]
  IN IF categoryIndex = 0 \/ expenseIndex = 0 THEN Thrown(cats, "Expense not found")
     ELSE LET expenses ==
                filter(cats[categoryIndex].expenses,
                       LAMBDA expense : expense.id # expenseId)
              category ==
                [cats[categoryIndex] EXCEPT
                   !.expenses = expenses,
                   !.actualSpent = reduceAmounts(expenses, 0)]
          IN Returned(cats, [cats EXCEPT ![categoryIndex] = category])

\* throws 'Category not found' (ok = FALSE) or returns a copy of the expenses
getExpensesByCategory(cats, categoryId) ==
  LET i == findIndex(cats, LAMBDA cat : cat.id = categoryId)
  IN IF i = 0 THEN [ok |-> FALSE, err |-> "Category not found", expenses |-> <<>>]
     ELSE [ok |-> TRUE, err |-> "", expenses |-> cats[i].expenses]

-----------------------------------------------------------------------------
(* The localStorage-backed variants.  They read the stored collection      *)
(* (getAllCategories), change it and save it back; `stored` is the content *)
(* of the storage key, which is readable and writable here.                *)

Saved(updated) == [ok |-> TRUE, err |-> "", stored |-> updated]

NotSaved(stored, message) == [ok |-> FALSE, err |-> message, stored |-> stored]

\* date.toISOString().split('T')[0]
toISODate(d) == <<"ISODate", d.day>>

lsUpdateCategory(stored, id, name, plannedAmount) ==
  IF name = <<>> \/ Len(trim(name)) = 0
  THEN NotSaved(stored, "Category name cannot be empty")
  ELSE IF plannedAmount < 0
  THEN NotSaved(stored, "Planned amount must be a positive number")
  ELSE LET categoryIndex == findIndex(stored, LAMBDA cat : cat.id = id)
       IN IF categoryIndex = 0 THEN NotSaved(stored, "Category not found")
          ELSE LET nameExists ==
                     \E index \in 1..Len(stored) :
                        /\ index # categoryIndex
                        /\ toLowerCase(stored[index].name) = toLowerCase(trim(name))
               IN IF nameExists THEN NotSaved(stored, "Category name already exists")
                  ELSE Saved([stored EXCEPT ![categoryIndex] =
                                [@ EXCEPT !.name = trim(name),
                                          !.plannedAmount = plannedAmount]])

lsUpdateExpense(stored, expenseId, amount, description, date) ==
  IF amount <= 0 THEN NotSaved(stored, "Expense amount must be a positive number")
  ELSE IF description = <<>> \/ Len(trim(description)) = 0
  THEN NotSaved(stored, "Expense description cannot be empty")
  ELSE LET found == locateExpense(stored, expenseId)
           categoryIndex == found[1]
           expenseIndex == found[2]
       IN IF categoryIndex = 0 THEN NotSaved(stored, "Expense not found")
          ELSE IF ~date.valid THEN NotSaved(stored, "Invalid time value")
          ELSE LET expenses ==
                     [stored[categoryIndex].expenses EXCEPT ![expenseIndex] =
                        [@ EXCEPT !.amount = amount,
                                  !.description = trim(description),
                                  !.date = toISODate(date)]]
                   category ==
                     [stored[categoryIndex] EXCEPT !.expenses = expenses]
               IN Saved([stored EXCEPT ![categoryIndex] =
                           [category EXCEPT
                              !.actualSpent = calculateCategorySpending(category)]])

lsDeleteExpense(stored, expenseId) ==
  LET found == locateExpense(stored, expenseId)
      categoryIndex == found[1]
      expenseIndex == found[2]
  IN IF categoryIndex = 0 THEN NotSaved(stored, "Expense not found")
     ELSE LET old == stored[categoryIndex].expenses
              \* category.expenses.splice(expenseIndex, 1)
              expenses ==
                SubSeq(old, 1, expenseIndex - 1) \o SubSeq(old, expenseIndex + 1, Len(old))
              category == [stored[categoryIndex] EXCEPT !.expenses = expenses]
          IN Saved([stored EXCEPT ![categoryIndex] =
                      [category EXCEPT
                         !.actualSpent = calculateCategorySpending(category)]])

\* category ? category.expenses : []
lsGetExpensesByCategory(stored, categoryId) ==
  LET i == findIndex(stored, LAMBDA cat : cat.id = categoryId)
  IN IF i = 0 THEN <<>> ELSE stored[i].expenses

-----------------------------------------------------------------------------
(* The Supabase-backed category operations.  `table` is the rows of        *)
(* public.categories of the configured user; the requests reach the        *)
(* database and fail only on a constraint.                                 *)

DbDone(table, row) == [ok |-> TRUE, err |-> "", table |-> table, row |-> row]

DbFailed(table, message) ==
  [ok |-> FALSE, err |-> message, table |-> table,
   row |-> [id |-> NoId, name |-> <<>>, planned_amount |-> 0,
            actual_spent |-> 0, display_order |-> 0]]

\* CONSTRAINT unique_user_category UNIQUE (user_id, name): the rows of the user
\* other than `self` hold no name equal to `name`
unique_user_category(table, self, name) ==
  \A row \in table : row.id # self => row.name # name

maxDisplayOrder(table) ==
  CHOOSE m \in {row.display_order : row \in table} :
    \A row \in table : row.display_order <= m

createCategoryInDb(table, name, plannedAmount, clock) ==
  LET nextOrder == IF table = {} THEN 0 ELSE maxDisplayOrder(table) + 1
      categoryData ==
        [id |-> <<"uuid", clock>>,
         name |-> trim(name),
         planned_amount |-> plannedAmount,
         actual_spent |-> 0,
         display_order |-> nextOrder]
  IN IF ~unique_user_category(table, categoryData.id, categoryData.name)
     THEN DbFailed(table, "Category name already exists")
     ELSE DbDone(table \cup {categoryData}, categoryData)

\* createCategory of the Supabase-backed budget manager
supabaseCreateCategory(table, name, plannedAmount, clock) ==
  IF name = <<>> \/ Len(trim(name)) = 0
  THEN DbFailed(table, "Category name cannot be empty")
  ELSE IF plannedAmount < 0
  THEN DbFailed(table, "Planned amount must be a positive number")
  ELSE createCategoryInDb(table, name, plannedAmount, clock)

updateCategoryInDb(table, id, name, plannedAmount) ==
  IF ~\E row \in table : row.id = id
  THEN DbFailed(table, "Category not found")
  ELSE LET old == CHOOSE row \in table : row.id = id
           new == [old EXCEPT !.name = trim(name), !.planned_amount = plannedAmount]
       IN IF ~unique_user_category(table, id, new.name)
          THEN DbFailed(table, "Category name already exists")
          ELSE DbDone((table \ {old}) \cup {new}, new)

\* updateCategory of the Supabase-backed budget manager
supabaseUpdateCategory(table, id, name, plannedAmount) ==
  IF name = <<>> \/ Len(trim(name)) = 0
  THEN DbFailed(table, "Category name cannot be empty")
  ELSE IF plannedAmount < 0
  THEN DbFailed(table, "Planned amount must be a positive number")
  ELSE updateCategoryInDb(table, id, name, plannedAmount)

\* a delete that matches no row is no error
deleteCategoryFromDb(table, id) ==
  [ok |-> TRUE, err |-> "", table |-> {row \in table : row.id # id}]

-----------------------------------------------------------------------------
(* Tax calculator.  A number is finite, NaN, Infinity or -Infinity; a finite *)
(* amount is held in cents as an exact decimal, so the error of the binary   *)
(* floating-point representation is left out.                                *)

Finite(cents) == [kind |-> "finite", cents |-> cents]

NaN == [kind |-> "NaN", cents |-> 0]

Infinity == [kind |-> "Infinity", cents |-> 0]

NegInfinity == [kind |-> "-Infinity", cents |-> 0]

isFinite(x) == x.kind = "finite"

\* Math.round(n / d) for d > 0: to the nearest integer, a half goes up
MathRound(n, d) == (2 * n + d) \div (2 * d)

\* Math.round(x * rate * 100) / 100 for the rate num / den
roundRate(x, num, den) ==
  IF isFinite(x) THEN Finite(MathRound(x.cents * num, den)) ELSE x

\* x + y
plus(x, y) ==
  CASE isFinite(x) /\ isFinite(y) -> Finite(x.cents + y.cents)
    [] x.kind = "NaN" \/ y.kind = "NaN" -> NaN
    [] isFinite(x) -> y
    [] isFinite(y) -> x
    [] x = y -> x
    [] OTHER -> NaN

\* -x
negate(x) ==
  CASE isFinite(x) -> Finite(0 - x.cents)
    [] x.kind = "Infinity" -> NegInfinity
    [] x.kind = "-Infinity" -> Infinity
    [] OTHER -> NaN

\* Math.round(x * 100) / 100 of an amount held in cents
round2(x) == IF isFinite(x) THEN Finite(MathRound(x.cents, 1)) ELSE x

\* SHA_RATE = 0.0275 = 11 / 400
calculateSHA(grossPay) == roundRate(grossPay, 11, 400)

PERSONAL_RELIEF == 240000

BRACKET_1_LIMIT == 2400000

BRACKET_2_LIMIT == 3233300

\* grossPay <= limit, false for NaN
lessOrEqual(grossPay, limit) ==
  CASE isFinite(grossPay) -> grossPay.cents <= limit
    [] grossPay.kind = "-Infinity" -> TRUE
    [] OTHER -> FALSE

\* the mutant of calculatePAYEE: the third bracket leaves out the tax of the second
calculatePAYEE_thirdBracketOnly(grossPay) ==
  IF ~isFinite(grossPay)
  THEN (IF grossPay.kind = "-Infinity" THEN Finite(0) ELSE grossPay)
  ELSE LET g == grossPay.cents
           \* 20 * tax, in cents
           tax20 == IF lessOrEqual(grossPay, BRACKET_1_LIMIT) THEN g * 2
                    ELSE IF lessOrEqual(grossPay, BRACKET_2_LIMIT)
                    THEN BRACKET_1_LIMIT * 2 + (g - BRACKET_1_LIMIT) * 5
                    ELSE BRACKET_1_LIMIT * 2 + (g - BRACKET_2_LIMIT) * 6
           rounded == MathRound(tax20 - 20 * PERSONAL_RELIEF, 20)
       IN Finite(IF rounded > 0 THEN rounded ELSE 0)

\* the rates 0.10, 0.25 and 0.30 are 2/20, 5/20 and 6/20
calculatePAYEE(grossPay) ==
  IF ~isFinite(grossPay)
  THEN \* -Infinity takes the first bracket and Math.max(0, -Infinity) is 0;
       \* NaN and Infinity take the third and stay as they are
       (IF grossPay.kind = "-Infinity" THEN Finite(0) ELSE grossPay)
  ELSE LET g == grossPay.cents
           \* 20 * tax, in cents
           tax20 == IF lessOrEqual(grossPay, BRACKET_1_LIMIT) THEN g * 2
                    ELSE IF lessOrEqual(grossPay, BRACKET_2_LIMIT)
                    THEN BRACKET_1_LIMIT * 2 + (g - BRACKET_1_LIMIT) * 5
                    ELSE BRACKET_1_LIMIT * 2
                           + (BRACKET_2_LIMIT - BRACKET_1_LIMIT) * 5
                           + (g - BRACKET_2_LIMIT) * 6
           \* Math.round(payeeAfterRelief * 100) / 100
           rounded == MathRound(tax20 - 20 * PERSONAL_RELIEF, 20)
       IN Finite(IF rounded > 0 THEN rounded ELSE 0)

\* HOUSING_LEVY_RATE = 0.015 = 3 / 200
calculateHousingLevy(grossPay) == roundRate(grossPay, 3, 200)

\* the mutant of calculateNetPay: the net pay is what is left after the tax alone
calculateNetPay_afterTaxOnly(grossPay) ==
  LET sha == calculateSHA(grossPay)
      payee == calculatePAYEE(grossPay)
      housingLevy == calculateHousingLevy(grossPay)
      totalDeductions == round2(plus(plus(sha, payee), housingLevy))
      netPay == round2(plus(grossPay, negate(payee)))
  IN [present |-> TRUE, grossPay |-> grossPay, sha |-> sha, payee |-> payee,
      housingLevy |-> housingLevy, totalDeductions |-> totalDeductions,
      netPay |-> netPay]

\* the mutant of calculateNetPay: the housing levy is left out of the total
calculateNetPay_noLevy(grossPay) ==
  LET sha == calculateSHA(grossPay)
      payee == calculatePAYEE(grossPay)
      housingLevy == calculateHousingLevy(grossPay)
      totalDeductions == round2(plus(sha, payee))
      netPay == round2(plus(grossPay, negate(totalDeductions)))
  IN [present |-> TRUE, grossPay |-> grossPay, sha |-> sha, payee |-> payee,
      housingLevy |-> housingLevy, totalDeductions |-> totalDeductions,
      netPay |-> netPay]

calculateNetPay(grossPay) ==
  LET sha == calculateSHA(grossPay)
      payee == calculatePAYEE(grossPay)
      housingLevy == calculateHousingLevy(grossPay)
      totalDeductions == round2(plus(plus(sha, payee), housingLevy))
      netPay == round2(plus(grossPay, negate(totalDeductions)))
  IN [present |-> TRUE, grossPay |-> grossPay, sha |-> sha, payee |-> payee,
      housingLevy |-> housingLevy, totalDeductions |-> totalDeductions,
      netPay |-> netPay]

\* appState.income = null
NoIncome ==
  [present |-> FALSE, grossPay |-> NaN, sha |-> NaN, payee |-> NaN,
   housingLevy |-> NaN, totalDeductions |-> NaN, netPay |-> NaN]

-----------------------------------------------------------------------------
(* Inputs of the calls *)

Food == <<"f","o","o","d">>

\* names of the ledger runs: empty, blank, one character, and three spellings
\* of one name
NameInputs ==
  { <<>>, <<" ">>, <<"a">>, Food, <<"F","O","O","D">>, <<" ","f","o","o","d"," ">> }

\* names of the validation runs: also a forbidden character, 50 and 51 characters
NameInputsV ==
  { <<>>, <<"a">>, <<"a","b">>, <<"a","<">>, <<"A","&","B">>,
    Rep("x", 50), Rep("x", 51), <<" ","a"," ">> }

PlannedInputs == {-1, 0, 1}

\* <<name, plannedAmount>> of a category call: every name with a valid amount,
\* and the other amounts with a valid and with an empty name
CategoryInputs(names) ==
  (names \X {1}) \cup ({Food, <<>>} \X PlannedInputs)

AmountInputs == {0, 1, 2}

AmountInputsV == {-1, 0, 1}

Abc == <<"a","b","c">>

DescriptionInputs == { <<>>, <<" ">>, <<" ","a","b","c"," ">> }

DescriptionInputsV == { <<>>, <<"a","b">>, <<"a","b"," ">>, Abc, Rep("y", 100), Rep("y", 101) }

Today == [valid |-> TRUE, day |-> 0]

DateInputs == { Today, NoDate }

\* <<amount, description, date>> of an expense call: one field varies at a
\* time from a valid call, and one call has two invalid fields
ExpenseInputs(amounts, descriptions, dates) ==
  LET okAmount == 1
      okDescription == <<" ","a","b","c"," ">>
  IN (amounts \X {okDescription} \X {Today})
       \cup ({okAmount} \X descriptions \X {Today})
       \cup ({okAmount} \X {okDescription} \X dates)
       \cup {<<0, <<>>, NoDate>>}

\* tomorrow, the day after, two years ago (730 days) and the day before that
DateInputsV ==
  { Today, [valid |-> TRUE, day |-> 1], [valid |-> TRUE, day |-> 2],
    [valid |-> TRUE, day |-> -730], [valid |-> TRUE, day |-> -731], NoDate }

\* the default category the calls address ('Food'); the others stand by
AddressedDefaults == { <<"default", 4>> }

categoryIds(cats) == { cats[i].id : i \in 1..Len(cats) }

expenseIds(cats) ==
  { cats[i].expenses[j].id : <<i, j>> \in
      { p \in (1..Len(cats)) \X (1..MaxExpenses + 1) : p[2] <= Len(cats[p[1]].expenses) } }

-----------------------------------------------------------------------------
(* The caller: it holds the current snapshot, calls an operation on it and  *)
(* adopts the snapshot the operation returns (onCategoriesChange); when the *)
(* operation throws it keeps the snapshot it has.                           *)

NoCall ==
  [op |-> "none", id |-> NoId, name |-> <<>>, amount |-> 0, description |-> <<>>,
   date |-> NoDate, ok |-> TRUE, err |-> "", prev |-> <<>>, inp |-> <<>>,
   clock |-> 0, dbBefore |-> {}, out |-> <<>>, shown |-> <<>>, write |-> "none",
   earlier |-> <<>>, user |-> <<>>, saved |-> <<>>, loading |-> FALSE,
   available |-> FALSE, isPending |-> {}]

\* withRetry has not been called
NoRetry ==
  [at |-> "none", maxRetries |-> 0, attempt |-> 0, calls |-> 0, waited |-> 0,
   lastError |-> <<>>, answers |-> <<>>, result |-> <<>>]

\* the components before anything is rendered
UiAtRest ==
  /\ optimisticCategories = <<>>
  /\ phase = "idle"
  /\ storage = <<>>
  /\ storageAvailable = FALSE
  /\ error = ""
  /\ formErrors = {}
  /\ editingCategory = <<>>
  /\ errors = {}
  /\ editingExpense = <<>>
  /\ pending = <<>>
  /\ isLoading = FALSE
  /\ retry = NoRetry
  /\ incomes = {}

\* ids a call may name: those of the ledger (of the defaults, the addressed
\* ones), the id of the previous call (stale once deleted) and an unknown id
CategoryIdInputs ==
  { id \in categoryIds(categories) : id[1] = "default" => id \in AddressedDefaults }
    \cup { NoId } \cup { id \in {last.id} : id[1] \in {"category", "default"} }

ExpenseIdInputs ==
  expenseIds(categories) \cup { NoId } \cup { id \in {last.id} : id[1] = "expense" }

\* the number of categories the calls can address
addressedCategories(cats) ==
  Cardinality({i \in 1..Len(cats) :
                 cats[i].id[1] = "category" \/ cats[i].id \in AddressedDefaults})

RECURSIVE countExpenses(_)
countExpenses(cats) ==
  IF cats = <<>> THEN 0 ELSE Len(Head(cats).expenses) + countExpenses(Tail(cats))

\* the call is recorded; a returned snapshot replaces the caller's
Call(rec, r) ==
  /\ last' = [rec EXCEPT !.ok = r.ok, !.err = r.err, !.prev = categories,
                         !.inp = r.inp, !.clock = now]
  /\ categories' = IF r.ok THEN r.out ELSE categories
  /\ UNCHANGED <<db, income, uiVars>>

Init ==
  /\ categories \in { <<>>, initializeDefaultCategories }
  /\ now = 1
  /\ last = NoCall
  /\ db = {}
  /\ income = NoIncome
  /\ UiAtRest

CreateCategory(names, maxCats) ==
  \E arg \in CategoryInputs(names) :
    LET name == arg[1]
        plannedAmount == arg[2]
        r == createCategory(categories, name, plannedAmount, now)
    IN /\ r.ok => (addressedCategories(categories) < maxCats /\ now <= MaxNow)
       /\ Call([NoCall EXCEPT !.op = "createCategory", !.name = name,
                              !.amount = plannedAmount], r)
       /\ now' = IF r.ok THEN now + 1 ELSE now

UpdateCategory(names) ==
  \E id \in CategoryIdInputs, arg \in CategoryInputs(names) :
    LET name == arg[1]
        plannedAmount == arg[2]
        r == updateCategory(categories, id, name, plannedAmount)
    IN /\ Call([NoCall EXCEPT !.op = "updateCategory", !.id = id, !.name = name,
                              !.amount = plannedAmount], r)
       /\ UNCHANGED now

DeleteCategory ==
  \E id \in CategoryIdInputs :
    LET r == deleteCategory(categories, id)
    IN /\ Call([NoCall EXCEPT !.op = "deleteCategory", !.id = id], r)
       /\ UNCHANGED now

AddExpense(amounts, descriptions, dates, maxExpenses) ==
  \E categoryId \in CategoryIdInputs,
     arg \in ExpenseInputs(amounts, descriptions, dates) :
    LET amount == arg[1]
        description == arg[2]
        date == arg[3]
        r == addExpense(categories, categoryId, amount, description, date, now)
    IN /\ r.ok => (countExpenses(categories) < maxExpenses /\ now <= MaxNow)
       /\ Call([NoCall EXCEPT !.op = "addExpense", !.id = categoryId,
                              !.amount = amount, !.description = description,
                              !.date = date], r)
       /\ now' = IF r.ok THEN now + 1 ELSE now

UpdateExpense(amounts, descriptions, dates) ==
  \E expenseId \in ExpenseIdInputs,
     arg \in ExpenseInputs(amounts, descriptions, dates) :
    LET amount == arg[1]
        description == arg[2]
        date == arg[3]
        r == updateExpense(categories, expenseId, amount, description, date)
    IN /\ Call([NoCall EXCEPT !.op = "updateExpense", !.id = expenseId,
                              !.amount = amount, !.description = description,
                              !.date = date], r)
       /\ UNCHANGED now

DeleteExpense ==
  \E expenseId \in ExpenseIdInputs :
    LET r == deleteExpense(categories, expenseId)
    IN /\ Call([NoCall EXCEPT !.op = "deleteExpense", !.id = expenseId], r)
       /\ UNCHANGED now

Next ==
  \/ CreateCategory(NameInputs, MaxCats)
  \/ UpdateCategory(NameInputs)
  \/ DeleteCategory
  \/ AddExpense(AmountInputs, DescriptionInputs, DateInputs, MaxExpenses)
  \/ UpdateExpense(AmountInputs, DescriptionInputs, DateInputs)
  \/ DeleteExpense

Spec == Init /\ [][Next]_vars

\* the ledger operations on the inputs of the validators' limits
NextV ==
  \/ CreateCategory(NameInputsV, MaxCatsV)
  \/ UpdateCategory(NameInputsV)
  \/ DeleteCategory
  \/ AddExpense(AmountInputsV, DescriptionInputsV, DateInputsV, MaxExpensesV)
  \/ UpdateExpense(AmountInputsV, DescriptionInputsV, DateInputsV)
  \/ DeleteExpense

InitV ==
  /\ categories = <<>>
  /\ now = 1
  /\ last = NoCall
  /\ db = {}
  /\ income = NoIncome
  /\ UiAtRest

SpecV == InitV /\ [][NextV]_vars

-----------------------------------------------------------------------------
(* The Supabase-backed budget manager on the categories table *)

DbCall(rec, r) ==
  /\ last' = [rec EXCEPT !.ok = r.ok, !.err = r.err, !.dbBefore = db, !.clock = now]
  /\ db' = r.table
  /\ UNCHANGED <<categories, income, uiVars>>

rowIds(table) == { row.id : row \in table }

DbIdInputs == rowIds(db) \cup { NoId } \cup { id \in {last.id} : id[1] = "uuid" }

InitDb ==
  /\ categories = <<>>
  /\ now = 1
  /\ last = NoCall
  /\ db = {}
  /\ income = NoIncome
  /\ UiAtRest

DbCreateCategory ==
  \E arg \in CategoryInputs(NameInputs) :
    LET name == arg[1]
        plannedAmount == arg[2]
        r == supabaseCreateCategory(db, name, plannedAmount, now)
    IN /\ r.ok => (Cardinality(db) < MaxRows /\ now <= MaxNow)
       /\ DbCall([NoCall EXCEPT !.op = "supabaseCreateCategory", !.name = name,
                                !.amount = plannedAmount], r)
       /\ now' = IF r.ok THEN now + 1 ELSE now

DbUpdateCategory ==
  \E id \in DbIdInputs, arg \in CategoryInputs(NameInputs) :
    LET name == arg[1]
        plannedAmount == arg[2]
        r == supabaseUpdateCategory(db, id, name, plannedAmount)
    IN /\ DbCall([NoCall EXCEPT !.op = "supabaseUpdateCategory", !.id = id,
                                !.name = name, !.amount = plannedAmount], r)
       /\ UNCHANGED now

DbDeleteCategory ==
  \E id \in DbIdInputs :
    LET r == deleteCategoryFromDb(db, id)
    IN /\ DbCall([NoCall EXCEPT !.op = "supabaseDeleteCategory", !.id = id], r)
       /\ UNCHANGED now

NextDb ==
  \/ DbCreateCategory
  \/ DbUpdateCategory
  \/ DbDeleteCategory

SpecDb == InitDb /\ [][NextDb]_vars

-----------------------------------------------------------------------------
(* Id generation.  generateCategoryId and generateExpenseId join Date.now()  *)
(* and a Math.random() suffix; neither looks at the ids of the ledger.  Here *)
(* calls may fall in the same millisecond (the clock advances on its own)    *)
(* and the suffix is drawn anew on every call.                               *)

\* Math.random().toString(36).substring(2, 11), two of its values
RandomInputs == { "k3f9x2m1q", "z81hd02lp" }

IdNameInputs == { Food, <<"a","b">> }

InitId ==
  /\ categories = <<>>
  /\ now = 1
  /\ last = NoCall
  /\ db = {}
  /\ income = NoIncome
  /\ UiAtRest

IdCreateCategory ==
  \E name \in IdNameInputs, random \in RandomInputs :
    LET r == createCategory(categories, name, 1, <<now, random>>)
    IN /\ r.ok => Len(categories) < MaxCatsId
       /\ Call([NoCall EXCEPT !.op = "createCategory", !.name = name,
                              !.amount = 1], r)
       /\ UNCHANGED now

IdAddExpense ==
  \E categoryId \in categoryIds(categories) \cup { NoId }, random \in RandomInputs :
    LET r == addExpense(categories, categoryId, 1, Abc, Today, <<now, random>>)
    IN /\ r.ok => countExpenses(categories) < MaxExpensesId
       /\ Call([NoCall EXCEPT !.op = "addExpense", !.id = categoryId,
                              !.amount = 1, !.description = Abc,
                              !.date = Today], r)
       /\ UNCHANGED now

\* Date.now() moves on between two calls
IdTick ==
  /\ now < MaxNow
  /\ now' = now + 1
  /\ UNCHANGED <<categories, last, db, income, uiVars>>

NextId ==
  \/ IdCreateCategory
  \/ IdAddExpense
  \/ IdTick

SpecId == InitId /\ [][NextId]_vars

-----------------------------------------------------------------------------
(* The tax calculator on gross pays around the bracket limits *)

GrossPayInputs ==
  { Finite(k * 100000) : k \in 0..MaxThousands }
    \cup { Finite(d) : d \in 0..BoundaryWidth }
    \cup { Finite(BRACKET_1_LIMIT + d) : d \in (0 - BoundaryWidth)..BoundaryWidth }
    \cup { Finite(BRACKET_2_LIMIT + d) : d \in (0 - BoundaryWidth)..BoundaryWidth }
    \cup { Finite(0 - 1), Finite(0 - 10000), NaN, Infinity, NegInfinity }

InitTax ==
  /\ categories = <<>>
  /\ now = 1
  /\ last = NoCall
  /\ db = {}
  /\ income = NoIncome
  /\ UiAtRest

\* calculateNetPay(grossPay), handed to updateIncome
CalculateNetPay ==
  \E grossPay \in GrossPayInputs :
    /\ income' = calculateNetPay(grossPay)
    /\ last' = [NoCall EXCEPT !.op = "calculateNetPay", !.clock = now]
    /\ UNCHANGED <<categories, now, db, uiVars>>

NextTax == CalculateNetPay

SpecTax == InitTax /\ [][NextTax]_vars

-----------------------------------------------------------------------------
(* Budget status of a category, as the category card and the expense list   *)
(* show it                                                                  *)

\* CategoryCard: percentageUsed as the fraction <<numerator, denominator>>
percentageUsed(category) ==
  IF category.plannedAmount > 0
  THEN <<category.actualSpent * 100, category.plannedAmount>>
  ELSE <<0, 1>>

isOverBudget(category) == category.actualSpent > category.plannedAmount

isNearBudget(category) ==
  LET p == percentageUsed(category)
  IN p[1] >= 80 * p[2] /\ p[1] <= 100 * p[2]

\* CategoryCard.getStatusClasses: the colour of the card
getStatusClasses(category) ==
  IF isOverBudget(category) THEN "red"
  ELSE IF isNearBudget(category) THEN "yellow"
  ELSE "green"

\* actualSpent / plannedAmount >= 0.8: x / 0 is Infinity for x > 0, NaN for 0
ratioAtLeastFourFifths(actualSpent, plannedAmount) ==
  CASE plannedAmount > 0 -> 10 * actualSpent >= 8 * plannedAmount
    [] plannedAmount < 0 -> 10 * actualSpent <= 8 * plannedAmount
    [] OTHER -> actualSpent > 0

\* the mutant of expenseListStatus: yellow only above 0.8
expenseListStatus_aboveOnly(category) ==
  IF category.actualSpent > category.plannedAmount THEN "red"
  ELSE IF category.plannedAmount > 0
            /\ 10 * category.actualSpent > 8 * category.plannedAmount THEN "yellow"
  ELSE "green"

\* ExpenseTracker: the colour of the category's icon in the expense list
expenseListStatus(category) ==
  IF category.actualSpent > category.plannedAmount THEN "red"
  ELSE IF ratioAtLeastFourFifths(category.actualSpent, category.plannedAmount)
  THEN "yellow"
  ELSE "green"

StatusPlannedInputs == { 0, 5, 10 }

StatusAmountInputs == { 3, 4, 7 }

InitStatus ==
  /\ categories \in { <<>>, initializeDefaultCategories }
  /\ now = 1
  /\ last = NoCall
  /\ db = {}
  /\ income = NoIncome
  /\ UiAtRest

\* the planned amount of 'Food' is set
StatusUpdateCategory ==
  \E id \in AddressedDefaults, plannedAmount \in StatusPlannedInputs :
    /\ Call([NoCall EXCEPT !.op = "updateCategory", !.id = id,
                            !.name = DEFAULT_CATEGORIES[4], !.amount = plannedAmount],
            updateCategory(categories, id, DEFAULT_CATEGORIES[4], plannedAmount))
    /\ UNCHANGED now

StatusAddExpense ==
  \E categoryId \in AddressedDefaults, amount \in StatusAmountInputs :
    LET r == addExpense(categories, categoryId, amount, Abc, Today, now)
    IN /\ r.ok => (countExpenses(categories) < MaxExpensesS /\ now <= MaxNow)
       /\ Call([NoCall EXCEPT !.op = "addExpense", !.id = categoryId,
                              !.amount = amount, !.description = Abc,
                              !.date = Today], r)
       /\ now' = IF r.ok THEN now + 1 ELSE now

StatusDeleteExpense ==
  \E expenseId \in expenseIds(categories) :
    /\ Call([NoCall EXCEPT !.op = "deleteExpense", !.id = expenseId],
            deleteExpense(categories, expenseId))
    /\ UNCHANGED now

NextStatus ==
  \/ StatusUpdateCategory
  \/ StatusAddExpense
  \/ StatusDeleteExpense

SpecStatus == InitStatus /\ [][NextStatus]_vars

-----------------------------------------------------------------------------
(* The components: BudgetProvider holds appState.categories (categories)    *)
(* and saves it after every change; BudgetAllocation and ExpenseTracker     *)
(* call the budget manager inside a transition, show an optimistic list     *)
(* until the transition ends, and hand the returned snapshot to              *)
(* onCategoriesChange.  A value that React holds as "x or null" is a         *)
(* sequence of at most one element.                                          *)

MaxCatsU == 1

MaxExpensesU == 1

MaxNowU == 2

\* form validators: the message of a ValidationResult, "" when isValid
validateCategoryName(name, existingNames) ==
  IF name = <<>> \/ Len(trim(name)) = 0 THEN "Category name is required"
  ELSE IF Len(trim(name)) < 2
  THEN "Category name must be at least 2 characters long"
  ELSE IF Len(trim(name)) > 50
  THEN "Category name must be less than 50 characters"
  ELSE IF \E i \in 1..Len(existingNames) :
            toLowerCase(existingNames[i]) = toLowerCase(trim(name))
  THEN "Category name already exists"
  ELSE IF \E i \in 1..Len(name) : name[i] \in {"<", ">", "\"", "'", "&"}
  THEN "Category name contains invalid characters"
  ELSE ""

validatePlannedAmount(value) ==
  IF value < 0 THEN "Planned amount must be a positive number"
  ELSE IF value > 1000000
  THEN "Planned amount seems unusually high. Please verify the amount"
  ELSE ""

validateExpenseAmount(value) ==
  IF value <= 0 THEN "Expense amount must be greater than zero"
  ELSE IF value > 1000000
  THEN "Expense amount seems unusually high. Please verify the amount"
  ELSE ""

validateExpenseDescription(description) ==
  IF description = <<>> \/ Len(trim(description)) = 0
  THEN "Expense description is required"
  ELSE IF Len(trim(description)) < 3
  THEN "Description must be at least 3 characters long"
  ELSE IF Len(trim(description)) > 100
  THEN "Description must be less than 100 characters"
  ELSE ""

validateDate(dateValue) ==
  IF ~dateValue.valid THEN "Please enter a valid date"
  ELSE IF dateValue.day > 1 THEN "Date cannot be in the future"
  ELSE IF dateValue.day < -730
  THEN "Date cannot be more than 2 years in the past"
  ELSE ""

validateCategorySelection(categoryId, availableCategories) ==
  IF categoryId = NoId THEN "Please select a category"
  ELSE IF availableCategories # {} /\ categoryId \notin availableCategories
  THEN "Selected category is not valid"
  ELSE ""

\* getValidationErrors: the messages of the fields that are not valid
getValidationErrors(results) == { m \in results : m # "" }

\* BudgetAllocation.validateForm: the errors it sets; the form is valid when
\* there are none
validateCategoryForm(name, plannedAmount) ==
  LET excluded == IF editingCategory = <<>> THEN NoId ELSE editingCategory[1].id
      kept == SelectSeq(optimisticCategories, LAMBDA cat : cat.id # excluded)
      existingNames == [i \in 1..Len(kept) |-> kept[i].name]
  IN getValidationErrors({ validateCategoryName(name, existingNames),
                           validatePlannedAmount(plannedAmount) })

\* ExpenseTracker.validateForm
validateExpenseForm(categoryId, amount, description, date) ==
  getValidationErrors({ validateCategorySelection(categoryId, categoryIds(categories)),
                        validateExpenseAmount(amount),
                        validateExpenseDescription(description),
                        validateDate(date) })

\* the reducer of BudgetAllocation's useOptimistic
categoryReducer(state, action) ==
  CASE action.type = "add" -> Append(state, action.category)
    [] action.type = "update" ->
         [i \in 1..Len(state) |->
            IF state[i].id = action.category.id THEN action.category ELSE state[i]]
    [] action.type = "delete" ->
         SelectSeq(state, LAMBDA cat : cat.id # action.id)
    [] OTHER -> state

\* the reducer of ExpenseTracker's useOptimistic: the budget manager on the
\* list shown, the list itself when the operation throws
expenseReducer(currentCategories, action, clock) ==
  LET r == CASE action.type = "add" ->
                  addExpense(currentCategories, action.categoryId, action.amount,
                             action.description, action.date, clock)
             [] action.type = "update" ->
                  updateExpense(currentCategories, action.expenseId, action.amount,
                                action.description, action.date)
             [] action.type = "delete" ->
                  deleteExpense(currentCategories, action.expenseId)
             [] OTHER -> Thrown(currentCategories, "")
  IN IF r.ok THEN r.out ELSE currentCategories

\* createError
createError(type, message, code) == [type |-> type, message |-> message, code |-> code]

\* what saveData throws when setItem fails: an Error with a name
StorageError(name) == [isError |-> TRUE, name |-> name]

\* handleStorageError: an AppError is not an Error and gets the generic message
handleStorageError(thrown) ==
  IF thrown.isError /\ thrown.name = "QuotaExceededError"
  THEN createError("storage",
         "Storage space is full. Please clear some browser data and try again.",
         "QUOTA_EXCEEDED")
  ELSE createError("storage", "Failed to save data. Please try again.", "STORAGE_ERROR")

\* getErrorMessage followed by ' Your changes may not be preserved.'
notPreservedMessage(appError) ==
  IF appError.code = "QUOTA_EXCEEDED"
  THEN "Storage space is full. Please clear some browser data and try again. You can clear browser data or use a different browser. Your changes may not be preserved."
  ELSE "Failed to save data. Please try again. Your changes may not be preserved."

\* error.includes('save')
includesSave(message) ==
  message = "Failed to save data. Please try again. Your changes may not be preserved."

\* the names of the errors setItem may throw; "none" when it stores the data
StorageFaults == {"none", "QuotaExceededError", "DataTooLargeError"}

\* saveData: the stored copy afterwards and the AppError thrown, if any
saveData(stored, data, fault) ==
  IF fault = "none"
  THEN [saved |-> TRUE, stored |-> data, thrown |-> <<>>]
  ELSE [saved |-> FALSE, stored |-> stored,
        thrown |-> << [isError |-> FALSE, name |-> ""]
                        @@ handleStorageError(StorageError(fault)) >>]

\* the auto-save effect that puts the stored list back on the screen when the
\* save fails
autoSaveEffect_rollback(appState, stored, currentError, fault) ==
  LET s == saveData(stored, appState, fault)
  IN IF s.saved
     THEN [saved |-> TRUE, categories |-> appState, storage |-> s.stored,
           error |-> IF currentError # "" /\ includesSave(currentError)
                     THEN "" ELSE currentError]
     ELSE [saved |-> FALSE, categories |-> stored, storage |-> s.stored,
           error |-> notPreservedMessage(handleStorageError(s.thrown[1]))]

\* the auto-save effect that reports every save, failed or not
autoSaveEffect_alwaysReports(appState, stored, currentError, fault) ==
  LET s == saveData(stored, appState, fault)
  IN [saved |-> s.saved, categories |-> appState, storage |-> s.stored,
      error |-> IF s.saved
                THEN "Failed to save data. Please try again. Your changes may not be preserved."
                ELSE notPreservedMessage(handleStorageError(s.thrown[1]))]

\* the auto-save effect that stores the list it had stored before
autoSaveEffect_stale(appState, stored, currentError, fault) ==
  LET s == saveData(stored, stored, fault)
  IN IF s.saved
     THEN [saved |-> TRUE, categories |-> appState, storage |-> s.stored,
           error |-> IF currentError # "" /\ includesSave(currentError)
                     THEN "" ELSE currentError]
     ELSE [saved |-> FALSE, categories |-> appState, storage |-> s.stored,
           error |-> notPreservedMessage(handleStorageError(s.thrown[1]))]

\* BudgetProvider's auto-save effect: appState.categories, the stored copy and
\* the provider's error afterwards
autoSaveEffect(appState, stored, currentError, fault) ==
  LET s == saveData(stored, appState, fault)
  IN IF s.saved
     THEN [saved |-> TRUE, categories |-> appState, storage |-> s.stored,
           error |-> IF currentError # "" /\ includesSave(currentError)
                     THEN "" ELSE currentError]
     ELSE [saved |-> FALSE, categories |-> appState, storage |-> s.stored,
           error |-> notPreservedMessage(handleStorageError(s.thrown[1]))]

\* what the forms are given
UiNameInputs == { <<"a","b">>, <<"a">> }

UiPlannedInputs == {1}

UiAmountInputs == {0, 3}

\* the categories and the expenses whose buttons the user presses
renderedCategories ==
  { optimisticCategories[i] : i \in
      { k \in 1..Len(optimisticCategories) :
          optimisticCategories[k].id[1] = "default"
            => optimisticCategories[k].id \in AddressedDefaults } }

renderedExpenses ==
  UNION { { c.expenses[j] : j \in 1..Len(c.expenses) } : c \in renderedCategories }

\* appState.categories after the transition when the queued calls are forgotten
awaited_stale == categories

\* the snapshot the queued setAppState calls leave in appState.categories when
\* the transition ends: each call replaces the list, so the last one stays
awaited == IF pending # <<>> THEN pending[1] ELSE categories

\* the call still in flight when a handler runs before the transition ended
inFlight ==
  IF phase = "transition"
  THEN << [op |-> last.op, ok |-> last.ok, prev |-> last.prev, out |-> last.out] >>
  ELSE <<>>

\* the component whose handler calls the operation
component(op) ==
  IF op \in {"createCategory", "updateCategory", "deleteCategory"}
  THEN "BudgetAllocation" ELSE "ExpenseTracker"

\* the components whose useTransition is pending: their forms are disabled,
\* the buttons of the cards and of the expense items are not
isPending == IF phase = "transition" THEN last.isPending ELSE {}

\* the operation returned inside the transition: the optimistic list is shown
\* and the snapshot is handed to onCategoriesChange
Published(rec, r, optimistic) ==
  /\ last' = [rec EXCEPT !.ok = r.ok, !.err = r.err, !.prev = categories,
                         !.inp = r.inp, !.clock = now,
                         !.out = IF r.ok THEN r.out ELSE awaited,
                         !.shown = optimistic, !.earlier = inFlight,
                         !.isPending = isPending \cup {component(rec.op)}]
  /\ optimisticCategories' = optimistic
  /\ pending' = IF r.ok THEN <<r.out>> ELSE pending
  /\ phase' = "transition"
  /\ UNCHANGED <<categories, db, income, storage, storageAvailable, error,
                 isLoading, retry, incomes>>

\* the operation threw before anything was shown
Caught(rec, r) ==
  /\ last' = [rec EXCEPT !.ok = FALSE, !.err = r.err, !.prev = categories,
                         !.inp = r.inp, !.clock = now, !.out = awaited,
                         !.shown = optimisticCategories, !.earlier = inFlight,
                         !.isPending = isPending]
  /\ UNCHANGED <<categories, optimisticCategories, phase, db, income, storage,
                 storageAvailable, error, pending, isLoading, retry, incomes>>

\* validateForm returned false: the handler returns
NotValid ==
  /\ last' = [NoCall EXCEPT !.op = "validateForm", !.ok = FALSE, !.prev = categories,
                            !.out = awaited, !.shown = optimisticCategories,
                            !.clock = now, !.earlier = inFlight,
                            !.isPending = isPending]
  /\ UNCHANGED <<categories, optimisticCategories, phase, db, income, storage,
                 storageAvailable, error, now, editingCategory, editingExpense,
                 pending, isLoading, retry, incomes>>

InitUi ==
  /\ categories = initializeDefaultCategories
  /\ optimisticCategories = categories
  /\ storageAvailable \in BOOLEAN
  /\ storage = IF storageAvailable THEN categories ELSE <<>>
  /\ error = IF storageAvailable THEN "" ELSE "Failed to save data. Please try again."
  /\ phase = "idle"
  /\ now = 1
  /\ last = NoCall
  /\ db = {}
  /\ income = NoIncome
  /\ formErrors = {}
  /\ editingCategory = <<>>
  /\ errors = {}
  /\ editingExpense = <<>>
  /\ pending = <<>>
  /\ isLoading = FALSE
  /\ retry = NoRetry
  /\ incomes = {}

\* BudgetAllocation.handleSubmit
HandleSubmit(phases) ==
  /\ phase \in phases
  /\ "BudgetAllocation" \notin isPending
  /\ \E name \in UiNameInputs, plannedAmount \in UiPlannedInputs :
       LET problems == validateCategoryForm(name, plannedAmount)
           editing == editingCategory # <<>>
           r == IF editing
                THEN updateCategory(categories, editingCategory[1].id, trim(name),
                                    plannedAmount)
                ELSE createCategory(categories, trim(name), plannedAmount, now)
           action ==
             IF editing
             THEN [type |-> "update", id |-> NoId,
                   category |-> [editingCategory[1] EXCEPT
                                   !.name = trim(name),
                                   !.plannedAmount = plannedAmount]]
             ELSE [type |-> "add", id |-> NoId,
                   category |-> [id |-> <<"temp", now>>, name |-> trim(name),
                                 plannedAmount |-> plannedAmount,
                                 actualSpent |-> 0, expenses |-> <<>>]]
           rec == [NoCall EXCEPT
                     !.op = IF editing THEN "updateCategory" ELSE "createCategory",
                     !.id = IF editing THEN editingCategory[1].id ELSE NoId,
                     !.name = trim(name), !.amount = plannedAmount]
       IN IF problems # {}
          THEN /\ NotValid
               /\ formErrors' = problems
               /\ UNCHANGED errors
          ELSE IF r.ok
          THEN /\ editing \/ (addressedCategories(categories) < 1 + MaxCatsU
                               /\ now <= MaxNowU)
               /\ Published(rec, r, categoryReducer(optimisticCategories, action))
               /\ formErrors' = {}
               /\ editingCategory' = <<>>
               /\ now' = IF editing THEN now ELSE now + 1
               /\ UNCHANGED <<errors, editingExpense>>
          ELSE /\ Caught(rec, r)
               /\ formErrors' = {r.err}
               /\ UNCHANGED <<now, errors, editingCategory, editingExpense>>

\* BudgetAllocation.handleEdit
HandleEdit(phases) ==
  /\ phase \in phases
  /\ \E category \in renderedCategories :
       /\ editingCategory' = <<category>>
       /\ formErrors' = {}
  /\ UNCHANGED <<categories, now, last, db, income, optimisticCategories, phase,
                 storage, storageAvailable, error, errors, editingExpense, pending,
                 isLoading, retry, incomes>>

\* BudgetAllocation.handleDelete: a thrown error goes to the console only
HandleDelete(phases) ==
  /\ phase \in phases
  /\ \E category \in renderedCategories :
       LET categoryId == category.id
           r == deleteCategory(categories, categoryId)
           rec == [NoCall EXCEPT !.op = "deleteCategory", !.id = categoryId]
       IN IF r.ok
          THEN Published(rec, r,
                 categoryReducer(optimisticCategories,
                                 [type |-> "delete", id |-> categoryId]))
          ELSE Caught(rec, r)
  /\ UNCHANGED <<now, formErrors, editingCategory, errors, editingExpense>>

\* ExpenseTracker.handleAddExpense: the optimistic update comes first; the
\* reducer runs when the component renders and generates an id of its own
HandleAddExpense(phases) ==
  /\ phase \in phases
  /\ "ExpenseTracker" \notin isPending
  /\ editingExpense = <<>>
  /\ \E categoryId \in { c.id : c \in renderedCategories } \cup { NoId },
        amount \in UiAmountInputs, renderClock \in {now, now + 1} :
       LET description == Abc
           date == Today
           problems == validateExpenseForm(categoryId, amount, description, date)
           r == addExpense(categories, categoryId, amount, trim(description), date, now)
           action == [type |-> "add", categoryId |-> categoryId, amount |-> amount,
                      description |-> trim(description), date |-> date]
           rec == [NoCall EXCEPT !.op = "addExpense", !.id = categoryId,
                                 !.amount = amount, !.description = trim(description),
                                 !.date = date]
       IN IF problems # {}
          THEN /\ renderClock = now
               /\ NotValid
               /\ errors' = problems
               /\ UNCHANGED formErrors
          ELSE /\ r.ok => (countExpenses(categories) < MaxExpensesU /\ now <= MaxNowU)
               /\ Published(rec, r,
                    expenseReducer(optimisticCategories, action, renderClock))
               /\ errors' = IF r.ok THEN {}
                            ELSE {"Failed to add expense. Please try again."}
               /\ now' = IF r.ok THEN now + 1 ELSE now
               /\ UNCHANGED <<formErrors, editingCategory, editingExpense>>

\* ExpenseTracker.handleEditExpense
HandleEditExpense(phases) ==
  /\ phase \in phases
  /\ \E expense \in renderedExpenses : editingExpense' = <<expense>>
  /\ UNCHANGED <<categories, now, last, db, income, optimisticCategories, phase,
                 storage, storageAvailable, error, formErrors, editingCategory,
                 errors, pending, isLoading, retry, incomes>>

\* ExpenseTracker.handleUpdateExpense
HandleUpdateExpense(phases) ==
  /\ phase \in phases
  /\ "ExpenseTracker" \notin isPending
  /\ editingExpense # <<>>
  /\ \E amount \in UiAmountInputs :
       LET expense == editingExpense[1]
           description == Abc
           date == Today
           problems ==
             validateExpenseForm(expense.categoryId, amount, description, date)
           r == updateExpense(categories, expense.id, amount, trim(description), date)
           action == [type |-> "update", expenseId |-> expense.id, amount |-> amount,
                      description |-> trim(description), date |-> date]
           rec == [NoCall EXCEPT !.op = "updateExpense", !.id = expense.id,
                                 !.amount = amount, !.description = trim(description),
                                 !.date = date]
       IN IF problems # {}
          THEN /\ NotValid
               /\ errors' = problems
               /\ UNCHANGED formErrors
          ELSE /\ Published(rec, r, expenseReducer(optimisticCategories, action, now))
               /\ errors' = IF r.ok THEN {}
                            ELSE {"Failed to update expense. Please try again."}
               /\ editingExpense' = IF r.ok THEN <<>> ELSE editingExpense
               /\ UNCHANGED <<now, formErrors, editingCategory>>

\* ExpenseTracker.handleDeleteExpense: a thrown error goes to the log only
HandleDeleteExpense(phases) ==
  /\ phase \in phases
  /\ \E expense \in renderedExpenses :
       LET r == deleteExpense(categories, expense.id)
           action == [type |-> "delete", expenseId |-> expense.id]
           rec == [NoCall EXCEPT !.op = "deleteExpense", !.id = expense.id]
       IN Published(rec, r, expenseReducer(optimisticCategories, action, now))
  /\ UNCHANGED <<now, formErrors, editingCategory, errors, editingExpense>>

\* the transition ends: setAppState takes effect and the optimistic list gives
\* way to the categories of appState; the auto-save effect runs when appState
\* has changed
TransitionEnd ==
  /\ phase = "transition"
  /\ categories' = awaited
  /\ optimisticCategories' = awaited
  /\ phase' = IF pending # <<>> THEN "effect" ELSE "idle"
  /\ pending' = <<>>
  /\ UNCHANGED <<now, last, db, income, storage, storageAvailable, error,
                 formErrors, editingCategory, errors, editingExpense,
                 isLoading, retry, incomes>>

\* the auto-save effect; it runs again when it has changed the error, which is
\* one of its dependencies
AutoSave ==
  /\ phase = "effect"
  /\ IF ~isLoading /\ storageAvailable
     THEN \E fault \in StorageFaults :
            LET e == autoSaveEffect(categories, storage, error, fault)
            IN /\ categories' = e.categories
               /\ storage' = e.storage
               /\ error' = e.error
               /\ last' = [last EXCEPT !.write = IF e.saved THEN "ok" ELSE "failed"]
               /\ phase' = IF e.error # error THEN "effect" ELSE "idle"
     ELSE /\ phase' = "idle"
          /\ UNCHANGED <<categories, storage, error, last>>
  /\ optimisticCategories' = categories'
  /\ UNCHANGED <<now, db, income, storageAvailable, formErrors, editingCategory,
                 errors, editingExpense, pending, isLoading, retry, incomes>>

NextUi ==
  \/ HandleSubmit({"idle"})
  \/ HandleEdit({"idle"})
  \/ HandleDelete({"idle"})
  \/ HandleAddExpense({"idle"})
  \/ HandleEditExpense({"idle"})
  \/ HandleUpdateExpense({"idle"})
  \/ HandleDeleteExpense({"idle"})
  \/ TransitionEnd
  \/ AutoSave

SpecUi == InitUi /\ [][NextUi]_vars

\* the same components when the user also acts on the optimistic render, i.e.
\* after a handler returned and before the render of its transition: the
\* handlers then still hold the categories of the render before
Interactive == {"idle", "transition"}

NextFlight ==
  \/ HandleSubmit(Interactive)
  \/ HandleDelete(Interactive)
  \/ HandleAddExpense(Interactive)
  \/ HandleDeleteExpense(Interactive)
  \/ TransitionEnd
  \/ AutoSave

SpecFlight == InitUi /\ [][NextFlight]_vars

-----------------------------------------------------------------------------
(* storageService.loadData.  The item of a key is a sequence of at most one *)
(* text (getItem gives null when there is none), a text is a sequence of     *)
(* characters, and a value that may be null is a sequence of at most one     *)
(* value.                                                                    *)

\* JSON.parse on the texts of the runs: a number, null, an empty array, and
\* anything else is a SyntaxError
JSONparse(text) ==
  CASE trim(text) = <<"1">> -> [ok |-> TRUE, value |-> <<1>>]
    [] trim(text) = <<"n","u","l","l">> -> [ok |-> TRUE, value |-> <<>>]
    [] trim(text) = <<"[","]">> -> [ok |-> TRUE, value |-> << <<>> >>]
    [] OTHER -> [ok |-> FALSE, value |-> <<>>]

\* what a call of loadData leaves: whether it threw, the value returned (none
\* for null), whether removeItem was called, and the item afterwards
Loaded(value, item) ==
  [threw |-> FALSE, value |-> value, removed |-> FALSE, item |-> item]

\* loadData whose removeItem is not inside a try of its own and whose outer
\* catch rethrows
loadData_removeUnguarded(item, key, available, getItemThrows, removeItemThrows) ==
  IF ~available THEN Loaded(<<>>, item)
  ELSE IF key = <<>> \/ Len(trim(key)) = 0 THEN Loaded(<<>>, item)
  ELSE IF getItemThrows THEN Loaded(<<>>, item)
  ELSE IF item = <<>> THEN Loaded(<<>>, item)
  ELSE IF Len(trim(item[1])) = 0 THEN Loaded(<<>>, item)
  ELSE LET parsed == JSONparse(item[1])
       IN IF parsed.ok THEN Loaded(parsed.value, item)
          ELSE IF removeItemThrows
          THEN [threw |-> TRUE, value |-> <<>>, removed |-> TRUE, item |-> item]
          ELSE [threw |-> FALSE, value |-> <<>>, removed |-> TRUE, item |-> <<>>]

\* loadData(key): available says whether window.localStorage is there, the
\* two other flags whether getItem and removeItem throw
loadData(item, key, available, getItemThrows, removeItemThrows) ==
  IF ~available THEN Loaded(<<>>, item)
  ELSE IF key = <<>> \/ Len(trim(key)) = 0 THEN Loaded(<<>>, item)
  ELSE IF getItemThrows THEN Loaded(<<>>, item)
  ELSE IF item = <<>> THEN Loaded(<<>>, item)
  ELSE IF Len(trim(item[1])) = 0 THEN Loaded(<<>>, item)
  ELSE LET parsed == JSONparse(item[1])
       IN IF parsed.ok THEN Loaded(parsed.value, item)
          ELSE IF removeItemThrows
          THEN [threw |-> FALSE, value |-> <<>>, removed |-> TRUE, item |-> item]
          ELSE [threw |-> FALSE, value |-> <<>>, removed |-> TRUE, item |-> <<>>]

\* the texts found under the key: empty, blank, corrupted, and three that parse
ItemInputs ==
  { <<>>, <<" ">>, <<"{">>, <<"1">>, <<"n","u","l","l">>, <<" ","[","]">> }

\* the keys asked for: none, blank, and a key
KeyInputs == { <<>>, <<" ">>, <<"k">> }

InitLoad ==
  /\ categories = <<>>
  /\ now = 1
  /\ last = NoCall
  /\ db = {}
  /\ income = NoIncome
  /\ UiAtRest

\* something is stored under the key, or the key is removed
SetItem ==
  /\ \E item \in { <<text>> : text \in ItemInputs } \cup { <<>> } : storage' = item
  /\ last' = [NoCall EXCEPT !.op = "setItem", !.inp = storage]
  /\ UNCHANGED <<categories, now, db, income, optimisticCategories, phase,
                 storageAvailable, error, formErrors, editingCategory, errors,
                 editingExpense, pending, isLoading, retry, incomes>>

\* loadData(key) under a storage condition
LoadData ==
  /\ \E key \in KeyInputs, available \in BOOLEAN, getItemThrows \in BOOLEAN,
        removeItemThrows \in BOOLEAN :
       LET r == loadData(storage, key, available, getItemThrows, removeItemThrows)
       IN /\ last' = [NoCall EXCEPT !.op = "loadData", !.name = key,
                                    !.ok = ~r.threw, !.inp = storage, !.out = r,
                                    !.shown = <<available, getItemThrows,
                                                removeItemThrows>>]
          /\ storage' = r.item
  /\ UNCHANGED <<categories, now, db, income, optimisticCategories, phase,
                 storageAvailable, error, formErrors, editingCategory, errors,
                 editingExpense, pending, isLoading, retry, incomes>>

NextLoad ==
  \/ SetItem
  \/ LoadData

SpecLoad == InitLoad /\ [][NextLoad]_vars

-----------------------------------------------------------------------------
(* The expense operations on a ledger as loadInitialData accepts it: the    *)
(* categories are checked for the types of their fields only, so the stored  *)
(* actualSpent may differ from the sum of the expenses.                      *)

MaxExpensesH == 3

\* a stored category with one expense of 2 and one without expenses
StoredLedger(spentC, spentD) ==
  << [id |-> <<"category", 0>>, name |-> <<"c">>, plannedAmount |-> 5,
      actualSpent |-> spentC,
      expenses |-> << [id |-> <<"expense", 0>>, categoryId |-> <<"category", 0>>,
                       amount |-> 2, description |-> Abc,
                       date |-> toISOString(Today)] >>],
     [id |-> <<"category", -1>>, name |-> <<"d">>, plannedAmount |-> 5,
      actualSpent |-> spentD, expenses |-> <<>>] >>

InitHeal ==
  /\ categories \in { StoredLedger(c, d) : c \in {0, 2, 7}, d \in {0, 3} }
  /\ now = 1
  /\ last = NoCall
  /\ db = {}
  /\ income = NoIncome
  /\ UiAtRest

NextHeal ==
  \/ AddExpense(AmountInputs, DescriptionInputs, DateInputs, MaxExpensesH)
  \/ UpdateExpense(AmountInputs, DescriptionInputs, DateInputs)
  \/ DeleteExpense

SpecHeal == InitHeal /\ [][NextHeal]_vars

-----------------------------------------------------------------------------
(* errorHandling.withRetry.  The answer of originalFunction is a record:    *)
(* resolved with a value, or rejected with an error; an error that has a     *)
(* 'type' is an AppError.  retry.at is the place of the call: "call" before  *)
(* an attempt, "wait" in the setTimeout, "resolved" or "rejected" at the end. *)

MaxRetriesInput == 3

isRecoverableError(appError) ==
  CASE appError.type = "validation" -> TRUE
    [] appError.type = "network" -> TRUE
    [] appError.type = "calculation" -> TRUE
    [] appError.type = "storage" -> appError.code # "STORAGE_UNAVAILABLE"
    [] appError.type = "unknown" -> TRUE
    [] OTHER -> FALSE

Resolved(value) == [resolved |-> TRUE, value |-> value, error |-> <<>>]

Rejected(hasType, type, code) ==
  [resolved |-> FALSE, value |-> 0,
   error |-> << [hasType |-> hasType, type |-> type, code |-> code] >>]

\* a value, a plain Error, and AppErrors that can and cannot be retried
AnswerInputs ==
  { Resolved(1), Rejected(FALSE, "", ""), Rejected(TRUE, "network", ""),
    Rejected(TRUE, "storage", "QUOTA_EXCEEDED"),
    Rejected(TRUE, "storage", "STORAGE_UNAVAILABLE") }

\* the body of the loop that waits and tries again after every error
attempted_retriesAll(r, answer) ==
  LET called == [r EXCEPT !.calls = @ + 1, !.answers = Append(@, answer)]
  IN IF answer.resolved
     THEN [called EXCEPT !.at = "resolved", !.result = <<answer.value>>]
     ELSE LET caught == [called EXCEPT !.lastError = answer.error]
          IN IF r.attempt = r.maxRetries THEN [caught EXCEPT !.at = "rejected"]
             ELSE [caught EXCEPT !.at = "wait"]

\* the body of the loop for one attempt: the call, and the catch
attempted(r, answer) ==
  LET called == [r EXCEPT !.calls = @ + 1, !.answers = Append(@, answer)]
  IN IF answer.resolved
     THEN [called EXCEPT !.at = "resolved", !.result = <<answer.value>>]
     ELSE LET caught == [called EXCEPT !.lastError = answer.error]
              thrown == answer.error[1]
          IN IF r.attempt = r.maxRetries THEN [caught EXCEPT !.at = "rejected"]
             ELSE IF thrown.hasType /\ ~isRecoverableError(thrown)
             THEN [caught EXCEPT !.at = "rejected"]
             ELSE [caught EXCEPT !.at = "wait"]

InitRetry ==
  /\ categories = <<>>
  /\ now = 1
  /\ last = NoCall
  /\ db = {}
  /\ income = NoIncome
  /\ UiAtRest

\* withRetry(originalFunction, maxRetries, delay) is called
WithRetry ==
  /\ retry.at \in {"none", "resolved", "rejected"}
  /\ \E maxRetries \in 1..MaxRetriesInput :
       retry' = [NoRetry EXCEPT !.at = "call", !.maxRetries = maxRetries,
                                !.attempt = 1]
  /\ UNCHANGED <<categories, now, last, db, income, optimisticCategories, phase,
                 storage, storageAvailable, error, formErrors, editingCategory,
                 errors, editingExpense, pending, isLoading, incomes>>

\* originalFunction is called and answers
Attempt ==
  /\ retry.at = "call"
  /\ \E answer \in AnswerInputs : retry' = attempted(retry, answer)
  /\ UNCHANGED <<categories, now, last, db, income, optimisticCategories, phase,
                 storage, storageAvailable, error, formErrors, editingCategory,
                 errors, editingExpense, pending, isLoading, incomes>>

\* the timer of delay * attempt fires and the loop goes on
Wake ==
  /\ retry.at = "wait"
  /\ retry' = [retry EXCEPT !.at = "call", !.attempt = @ + 1,
                            !.waited = @ + retry.attempt]
  /\ UNCHANGED <<categories, now, last, db, income, optimisticCategories, phase,
                 storage, storageAvailable, error, formErrors, editingCategory,
                 errors, editingExpense, pending, isLoading, incomes>>

NextRetry ==
  \/ WithRetry
  \/ Attempt
  \/ Wake

\* the promise of originalFunction settles and the timers fire
SpecRetry == InitRetry /\ [][NextRetry]_vars /\ WF_vars(Attempt) /\ WF_vars(Wake)

-----------------------------------------------------------------------------
(* The incomes table of expenseTracker.  A row keeps user_id, gross_pay,     *)
(* net_pay, is_current and created_at; id and created_at are the defaults of *)
(* the table, both taken from the clock.  A user id is a sequence of at most *)
(* one element: empty when nobody is signed in.                              *)

MaxIncomeRows == 3

UserInputs == { <<>>, <<"u1">>, <<"u2">> }

\* the PayBreakdown values saved: gross and net pay
PayBreakdownInputs == { [grossPay |-> 3, netPay |-> 2], [grossPay |-> 5, netPay |-> 4] }

mapPayBreakdownToDbIncome(userId, payBreakdown) ==
  [user_id |-> userId, gross_pay |-> payBreakdown.grossPay,
   net_pay |-> payBreakdown.netPay, is_current |-> TRUE]

mapDbIncomeToPayBreakdown(dbIncome) ==
  [grossPay |-> dbIncome.gross_pay, netPay |-> dbIncome.net_pay]

\* the rows .eq('user_id', userId).eq('is_current', true) selects
currentIncomes(table, userId) ==
  { row \in table : row.user_id = userId /\ row.is_current }

IncomeDone(table, out) == [ok |-> TRUE, err |-> "", table |-> table, out |-> out]

IncomeFailed(table, message) ==
  [ok |-> FALSE, err |-> message, table |-> table, out |-> <<>>]

\* getCurrentIncome: the newest current row of the user, or null
getCurrentIncome(table, userId, selectFails) ==
  IF userId = <<>> THEN IncomeDone(table, <<>>)
  ELSE IF selectFails THEN IncomeFailed(table, "Failed to fetch income data")
  ELSE LET rows == currentIncomes(table, userId[1])
       IN IF rows = {} THEN IncomeDone(table, <<>>)
          ELSE LET data == CHOOSE row \in rows :
                             \A other \in rows : other.created_at <= row.created_at
               IN IncomeDone(table, <<mapDbIncomeToPayBreakdown(data)>>)

\* saveIncome: the update of the previous incomes, whose error is only logged,
\* then the insert of the new row
saveIncome(table, userId, payBreakdown, clock, updateFails, insertFails) ==
  IF userId = <<>> THEN IncomeFailed(table, "Failed to save income data")
  ELSE LET previous == currentIncomes(table, userId[1])
           updated == IF updateFails THEN table
                      ELSE (table \ previous)
                           \cup { [row EXCEPT !.is_current = FALSE] : row \in previous }
           incomeData == mapPayBreakdownToDbIncome(userId[1], payBreakdown)
           data == [id |-> clock, user_id |-> incomeData.user_id,
                    gross_pay |-> incomeData.gross_pay, net_pay |-> incomeData.net_pay,
                    is_current |-> incomeData.is_current, created_at |-> clock]
       IN IF insertFails
          THEN IncomeFailed(updated, "Failed to save income data")
          ELSE IncomeDone(updated \cup {data}, <<mapDbIncomeToPayBreakdown(data)>>)

IncomeCall(rec, r) ==
  /\ last' = [rec EXCEPT !.ok = r.ok, !.err = r.err, !.out = r.out, !.clock = now]
  /\ incomes' = r.table
  /\ UNCHANGED <<categories, db, income, optimisticCategories, phase, storage,
                 storageAvailable, error, formErrors, editingCategory, errors,
                 editingExpense, pending, isLoading, retry>>

InitIncome ==
  /\ categories = <<>>
  /\ now = 1
  /\ last = NoCall
  /\ db = {}
  /\ income = NoIncome
  /\ UiAtRest

SaveIncome ==
  \E userId \in UserInputs, payBreakdown \in PayBreakdownInputs,
     updateFails \in BOOLEAN, insertFails \in BOOLEAN :
    LET r == saveIncome(incomes, userId, payBreakdown, now, updateFails, insertFails)
    IN /\ r.ok => Cardinality(incomes) < MaxIncomeRows
       /\ IncomeCall([NoCall EXCEPT !.op = "saveIncome", !.user = userId,
                                    !.inp = <<payBreakdown>>], r)
       /\ now' = IF r.ok THEN now + 1 ELSE now

GetCurrentIncome ==
  \E userId \in UserInputs, selectFails \in BOOLEAN :
    LET r == getCurrentIncome(incomes, userId, selectFails)
    IN /\ IncomeCall([NoCall EXCEPT !.op = "getCurrentIncome", !.user = userId], r)
       /\ UNCHANGED now

NextIncome ==
  \/ SaveIncome
  \/ GetCurrentIncome

SpecIncome == InitIncome /\ [][NextIncome]_vars

-----------------------------------------------------------------------------
(* The provider from its first render.  Here the item under                  *)
(* 'budgetPlannerData' is a sequence of at most one stored value; a stored    *)
(* value says whether its text parses and, when the parsed value has them,    *)
(* the income and the categories array (each a sequence of at most one).      *)
(* A stored category that lacks a field fails the typeof checks.              *)

\* JSON.stringify of an AppState, as JSON.parse gives it back
AppState(inc, cats) == [parses |-> TRUE, income |-> <<inc>>, categories |-> <<cats>>]

\* the state of useState before the load: { income: null, categories: [] }
Placeholder == AppState(NoIncome, <<>>)

\* a stored category as the application writes it
SavedCategory ==
  [id |-> <<"category", 0>>, name |-> <<"c">>, plannedAmount |-> 5,
   actualSpent |-> 0, expenses |-> <<>>]

\* a stored category without plannedAmount, actualSpent and expenses
BrokenCategory == [id |-> <<"category", 0>>, name |-> <<"c">>]

\* what a session may find under the key: a text that does not parse, a value
\* without income and categories, saved states with no category, with a
\* category, with a broken category, and with both
StoredInputs ==
  { [parses |-> FALSE, income |-> <<>>, categories |-> <<>>],
    [parses |-> TRUE, income |-> <<>>, categories |-> <<>>],
    AppState(NoIncome, <<>>),
    AppState(NoIncome, <<SavedCategory>>),
    AppState(NoIncome, <<BrokenCategory>>),
    AppState(NoIncome, <<BrokenCategory, SavedCategory>>) }

\* the typeof checks of loadInitialData on a stored category
isCategory(cat) ==
  {"id", "name", "plannedAmount", "actualSpent", "expenses"} \subseteq DOMAIN cat

\* loadData('budgetPlannerData') on the stored value: the value returned (none
\* for null) and the item afterwards; a text that does not parse is removed
loadAppState(item, getItemThrows) ==
  IF getItemThrows \/ item = <<>> THEN [value |-> <<>>, item |-> item]
  ELSE IF ~item[1].parses THEN [value |-> <<>>, item |-> <<>>]
  ELSE [value |-> item, item |-> item]

\* loadInitialData that shows the saved categories even when none is left
loadInitialData_keepsEmpty(item, available, getItemThrows, fault) ==
  IF ~available
  THEN [isLoading |-> FALSE, storageAvailable |-> FALSE,
        error |-> "Failed to save data. Please try again.",
        income |-> NoIncome, categories |-> initializeDefaultCategories,
        storage |-> item, saved |-> <<>>]
  ELSE LET savedData == loadAppState(item, getItemThrows)
       IN IF savedData.value # <<>>
          THEN LET found == savedData.value[1]
                   listed == IF found.categories # <<>> THEN found.categories[1] ELSE <<>>
                   valid == SelectSeq(listed, isCategory)
               IN [isLoading |-> FALSE, storageAvailable |-> TRUE, error |-> "",
                   income |-> IF found.income # <<>> THEN found.income[1] ELSE NoIncome,
                   categories |-> valid,
                   storage |-> savedData.item, saved |-> <<>>]
          ELSE LET initialState == AppState(NoIncome, initializeDefaultCategories)
                   s == saveData(savedData.item, <<initialState>>, fault)
               IN [isLoading |-> FALSE, storageAvailable |-> TRUE,
                   error |-> IF s.saved THEN ""
                             ELSE handleStorageError(s.thrown[1]).message,
                   income |-> NoIncome, categories |-> initializeDefaultCategories,
                   storage |-> s.stored, saved |-> <<initialState>>]

\* loadInitialData: the state its setState calls leave when it returns, the
\* item afterwards and the data it handed to saveData itself, if any.
\* available is the answer of isStorageAvailable.
loadInitialData(item, available, getItemThrows, fault) ==
  IF ~available
  THEN [isLoading |-> FALSE, storageAvailable |-> FALSE,
        error |-> "Failed to save data. Please try again.",
        income |-> NoIncome, categories |-> initializeDefaultCategories,
        storage |-> item, saved |-> <<>>]
  ELSE LET savedData == loadAppState(item, getItemThrows)
       IN IF savedData.value # <<>>
          THEN LET found == savedData.value[1]
                   listed == IF found.categories # <<>> THEN found.categories[1] ELSE <<>>
                   valid == SelectSeq(listed, isCategory)
               IN [isLoading |-> FALSE, storageAvailable |-> TRUE, error |-> "",
                   income |-> IF found.income # <<>> THEN found.income[1] ELSE NoIncome,
                   categories |-> IF Len(valid) = 0 THEN initializeDefaultCategories
                                  ELSE valid,
                   storage |-> savedData.item, saved |-> <<>>]
          ELSE LET initialState == AppState(NoIncome, initializeDefaultCategories)
                   s == saveData(savedData.item, <<initialState>>, fault)
               IN [isLoading |-> FALSE, storageAvailable |-> TRUE,
                   error |-> IF s.saved THEN ""
                             ELSE handleStorageError(s.thrown[1]).message,
                   income |-> NoIncome, categories |-> initializeDefaultCategories,
                   storage |-> s.stored, saved |-> <<initialState>>]

\* the first render: the placeholder state, loading, nothing known of storage
InitBoot ==
  /\ categories = <<>>
  /\ income = NoIncome
  /\ isLoading = TRUE
  /\ storageAvailable = FALSE
  /\ error = ""
  /\ storage \in { <<>> } \cup { <<value>> : value \in StoredInputs }
  /\ phase = "mount"
  /\ optimisticCategories = <<>>
  /\ now = 1
  /\ last = NoCall
  /\ db = {}
  /\ formErrors = {}
  /\ editingCategory = <<>>
  /\ errors = {}
  /\ editingExpense = <<>>
  /\ pending = <<>>
  /\ retry = NoRetry
  /\ incomes = {}

\* a call of loadInitialData and the render of its batched setState calls
Load(op) ==
  \E available \in BOOLEAN, getItemThrows \in BOOLEAN, fault \in StorageFaults :
    LET r == loadInitialData(storage, available, getItemThrows, fault)
    IN /\ last' = [NoCall EXCEPT !.op = op, !.saved = r.saved,
                                 !.loading = isLoading, !.available = available,
                                 !.inp = storage,
                                 !.write = IF r.saved = <<>> THEN "none"
                                           ELSE IF r.storage = r.saved THEN "ok"
                                           ELSE "failed"]
       /\ isLoading' = r.isLoading
       /\ storageAvailable' = r.storageAvailable
       /\ error' = r.error
       /\ income' = r.income
       /\ categories' = r.categories
       /\ optimisticCategories' = r.categories
       /\ storage' = r.storage
       /\ phase' = "effect"
       /\ UNCHANGED <<now, db, formErrors, editingCategory, errors, editingExpense,
                      pending, retry, incomes>>

\* the effects of the first commit: loadInitialData, then the auto-save effect,
\* which sees the values of the first render (isLoading true) and does nothing
Mount ==
  /\ phase = "mount"
  /\ ~(~isLoading /\ storageAvailable)
  /\ Load("mount")

\* retryDataLoad, from a button
RetryDataLoad ==
  /\ phase = "idle"
  /\ Load("retryDataLoad")

\* the auto-save effect after a render in which appState, isLoading,
\* storageAvailable or error has changed
SaveEffect ==
  /\ phase = "effect"
  /\ IF ~isLoading /\ storageAvailable
     THEN \E fault \in StorageFaults :
            LET appState == AppState(income, categories)
                e == autoSaveEffect(<<appState>>, storage, error, fault)
            IN /\ storage' = e.storage
               /\ error' = e.error
               /\ last' = [NoCall EXCEPT !.op = "autoSave", !.saved = <<appState>>,
                                         !.loading = isLoading,
                                         !.available = storageAvailable,
                                         !.inp = storage,
                                         !.write = IF e.saved THEN "ok" ELSE "failed"]
               /\ phase' = IF e.error # error THEN "effect" ELSE "idle"
     ELSE /\ phase' = "idle"
          /\ last' = [NoCall EXCEPT !.op = "autoSave", !.loading = isLoading,
                                    !.available = storageAvailable, !.inp = storage]
          /\ UNCHANGED <<storage, error>>
  /\ UNCHANGED <<categories, now, db, income, optimisticCategories,
                 storageAvailable, formErrors, editingCategory, errors,
                 editingExpense, pending, isLoading, retry, incomes>>

\* the page is opened again: the components start from their first render and
\* the stored item stays
Reopen ==
  /\ phase = "idle"
  /\ categories' = <<>>
  /\ income' = NoIncome
  /\ isLoading' = TRUE
  /\ storageAvailable' = FALSE
  /\ error' = ""
  /\ phase' = "mount"
  /\ optimisticCategories' = <<>>
  /\ last' = NoCall
  /\ formErrors' = {}
  /\ editingCategory' = <<>>
  /\ errors' = {}
  /\ editingExpense' = <<>>
  /\ UNCHANGED <<now, db, storage, pending, retry, incomes>>

NextBoot ==
  \/ Mount
  \/ RetryDataLoad
  \/ SaveEffect
  \/ Reopen
  \/ HandleSubmit({"idle"})
  \/ HandleDelete({"idle"})
  \/ TransitionEnd

SpecBoot == InitBoot /\ [][NextBoot]_vars

-----------------------------------------------------------------------------
(* Properties of the ledger *)

\* the sum of the amounts of a list of expenses
RECURSIVE SumOfAmounts(_)
SumOfAmounts(expenses) ==
  IF expenses = <<>> THEN 0
  ELSE expenses[Len(expenses)].amount + SumOfAmounts(SubSeq(expenses, 1, Len(expenses) - 1))

\* C1: in every snapshot reached from the empty ledger or from the five default
\* categories by successful calls of the six operations, the actualSpent of
\* every category is the sum of the amounts of its expenses.
C1_LedgerInvariant ==
  \A i \in 1..Len(categories) :
    categories[i].actualSpent = SumOfAmounts(categories[i].expenses)

\* an expense was deleted and a category still holds an expense with a
\* positive total next to a category without expenses
C1_Witness ==
  /\ last.op = "deleteExpense" /\ last.ok
  /\ \E i \in 1..Len(categories) :
       Len(categories[i].expenses) = 1 /\ categories[i].actualSpent = 2
  /\ \E i \in 1..Len(last.prev) : Len(last.prev[i].expenses) = 2

SameNameIgnoringCase(a, b) == toLowerCase(a) = toLowerCase(b)

DuplicateName == "Category name already exists"

\* C3: createCategory with a name that differs only in letter case or in
\* surrounding whitespace from the name of an existing category fails with the
\* duplicate-name error and adds no category, in the snapshot-based and in the
\* persistence-backed createCategory alike.
C3_DuplicateRejected ==
  /\ (/\ last.op = "createCategory"
      /\ \E i \in 1..Len(last.prev) :
            SameNameIgnoringCase(last.prev[i].name, trim(last.name)))
       => (~last.ok /\ last.err = DuplicateName /\ categories = last.prev)
  /\ (/\ last.op = "supabaseCreateCategory"
      /\ \E row \in last.dbBefore : SameNameIgnoringCase(row.name, trim(last.name)))
       => (~last.ok /\ last.err = DuplicateName /\ db = last.dbBefore)

MinNameLength == 2

MaxNameLength == 50

ForbiddenCharacters == {"<", ">", "\"", "'", "&"}

NameAgainstRules(name) ==
  \/ Len(trim(name)) < MinNameLength
  \/ Len(trim(name)) > MaxNameLength
  \/ \E i \in 1..Len(name) : name[i] \in ForbiddenCharacters

\* C4: createCategory and updateCategory reject, and return no new snapshot,
\* whenever the trimmed name is shorter than 2 or longer than 50 characters or
\* holds one of < > " ' &, or plannedAmount is negative.
C4_ValidationRejects ==
  (/\ last.op \in {"createCategory", "updateCategory"}
   /\ (NameAgainstRules(last.name) \/ last.amount < 0))
    => (~last.ok /\ categories = last.prev)

NotFoundCategory == "Category not found"

\* what the claim says of an updateCategory of `before` with valid arguments
\* that ended ok/err with the collection `after`
UpdateCategoryAsClaimed(before, id, name, plannedAmount, ok, err, after) ==
  /\ id \notin categoryIds(before) => (~ok /\ err = NotFoundCategory)
  /\ \A i \in 1..Len(before) :
       (before[i].id = id /\ SameNameIgnoringCase(before[i].name, trim(name)))
         => (/\ ok
             /\ Len(after) = Len(before)
             /\ after[i].id = id
             /\ after[i].name = trim(name))
  /\ \A i, j \in 1..Len(before) :
       (/\ i # j
        /\ before[i].id = id
        /\ SameNameIgnoringCase(before[j].name, trim(name)))
         => (~ok /\ err = DuplicateName)

\* C5: updateCategory's uniqueness check excludes the edited category: with a
\* non-blank name and a non-negative amount, updating X to its own name in any
\* letter case succeeds, updating X to another category's name in any letter
\* case fails with the duplicate-name error, and an id that is not in the
\* ledger fails with 'Category not found'; so does the localStorage variant on
\* every reachable collection.
C5_UpdateExcludesSelf ==
  /\ (last.op = "updateCategory" /\ trim(last.name) # <<>> /\ last.amount >= 0)
       => UpdateCategoryAsClaimed(last.prev, last.id, last.name, last.amount,
                                  last.ok, last.err, categories)
  /\ \A id \in CategoryIdInputs, arg \in CategoryInputs(NameInputs) :
       (trim(arg[1]) # <<>> /\ arg[2] >= 0)
         => LET r == lsUpdateCategory(categories, id, arg[1], arg[2])
            IN UpdateCategoryAsClaimed(categories, id, arg[1], arg[2],
                                       r.ok, r.err, r.stored)

\* a category was renamed to another spelling of its own name while another
\* category is in the ledger
C5_Witness ==
  /\ last.op = "updateCategory" /\ last.ok
  /\ Len(categories) >= 2
  /\ \E i \in 1..Len(last.prev) :
       /\ last.prev[i].id = last.id
       /\ last.prev[i].name # trim(last.name)
       /\ SameNameIgnoringCase(last.prev[i].name, trim(last.name))

\* C6: updateCategory is idempotent: after a successful
\* updateCategory(s, id, name, p), updateCategory of the result with the same
\* id, name and p succeeds and returns an equal snapshot.
C6_UpdateIdempotent ==
  (last.op = "updateCategory" /\ last.ok)
    => LET again == updateCategory(categories, last.id, last.name, last.amount)
       IN again.ok /\ again.out = categories

\* an update that changed the name (given with surrounding blanks) and the
\* planned amount of a category
C6_Witness ==
  /\ last.op = "updateCategory" /\ last.ok
  /\ last.name # trim(last.name)
  /\ \E i \in 1..Len(last.prev) :
       /\ last.prev[i].id = last.id
       /\ last.prev[i].name # categories[i].name
       /\ last.prev[i].plannedAmount # categories[i].plannedAmount
       /\ categories[i].plannedAmount > 0

allExpenses(cats) ==
  { cats[p[1]].expenses[p[2]] : p \in
      { q \in (1..Len(cats)) \X (1..MaxExpenses + 1) : q[2] <= Len(cats[q[1]].expenses) } }

\* C7: deleteCategory cascades: after a successful deleteCategory(s, id) no
\* category has the id and no expense has it as categoryId, and
\* getExpensesByCategory for the id fails with 'Category not found' or gives an
\* empty list; deleteCategory succeeds when the id is in the ledger and fails
\* with 'Category not found' when it is not.
C7_DeleteCascades ==
  last.op = "deleteCategory" =>
    /\ last.ok <=> last.id \in categoryIds(last.prev)
    /\ ~last.ok => (last.err = NotFoundCategory /\ categories = last.prev)
    /\ last.ok =>
         /\ last.id \notin categoryIds(categories)
         /\ \A e \in allExpenses(categories) : e.categoryId # last.id
         /\ LET got == getExpensesByCategory(categories, last.id)
            IN (~got.ok /\ got.err = NotFoundCategory) \/ (got.ok /\ got.expenses = <<>>)
         /\ lsGetExpensesByCategory(categories, last.id) = <<>>

\* a category holding two expenses was deleted and other categories remain
C7_Witness ==
  /\ last.op = "deleteCategory" /\ last.ok
  /\ categories # <<>>
  /\ \E i \in 1..Len(last.prev) :
       last.prev[i].id = last.id /\ Len(last.prev[i].expenses) = 2

MinDescriptionLength == 3

MaxDescriptionLength == 100

TwoYearsInDays == 730

\* C9: addExpense and updateExpense reject, without a new snapshot, any call
\* whose amount is not greater than 0, whose trimmed description has fewer than
\* 3 or more than 100 characters, or whose date is in the future or more than
\* two years in the past.
C9_ExpenseValidationRejects ==
  (/\ last.op \in {"addExpense", "updateExpense"}
   /\ \/ last.amount <= 0
      \/ Len(trim(last.description)) < MinDescriptionLength
      \/ Len(trim(last.description)) > MaxDescriptionLength
      \/ (last.date.valid /\ (last.date.day > 0 \/ last.date.day < -TwoYearsInDays)))
    => (~last.ok /\ categories = last.prev)

NotFoundExpense == "Expense not found"

ValidExpenseArguments(amount, description, date) ==
  amount > 0 /\ trim(description) # <<>> /\ date.valid

\* the expenses of `after` are those of `before` with the one of the id
\* replaced by an expense of the same id and category with the given fields
OneExpenseUpdated(before, after, expenseId, amount, description) ==
  /\ countExpenses(after) = countExpenses(before)
  /\ \A e \in allExpenses(before) : e.id # expenseId => e \in allExpenses(after)
  /\ \E e \in allExpenses(after), old \in allExpenses(before) :
       /\ e.id = expenseId /\ old.id = expenseId
       /\ e.categoryId = old.categoryId
       /\ e.amount = amount
       /\ e.description = trim(description)

\* the expenses of `after` are those of `before` without the one of the id
OneExpenseDeleted(before, after, expenseId) ==
  /\ countExpenses(after) = countExpenses(before) - 1
  /\ allExpenses(after) = { e \in allExpenses(before) : e.id # expenseId }

\* C10: with otherwise valid arguments, addExpense fails with 'Category not
\* found' exactly when no category has the categoryId, and updateExpense and
\* deleteExpense fail with 'Expense not found' exactly when no category holds
\* an expense with the expenseId; when the id exists the call succeeds and
\* adds, changes or removes exactly that one expense.  The localStorage
\* variants of updateExpense and deleteExpense do the same on every reachable
\* collection.
C10_NotFoundExactly ==
  /\ (/\ last.op = "addExpense"
      /\ ValidExpenseArguments(last.amount, last.description, last.date))
       => /\ last.ok <=> last.id \in categoryIds(last.prev)
          /\ ~last.ok => last.err = NotFoundCategory
          /\ last.ok =>
               /\ countExpenses(categories) = countExpenses(last.prev) + 1
               /\ \E e \in allExpenses(categories) :
                    /\ e \notin allExpenses(last.prev)
                    /\ e.categoryId = last.id
                    /\ e.amount = last.amount
                    /\ allExpenses(categories) = allExpenses(last.prev) \cup {e}
  /\ (/\ last.op = "updateExpense"
      /\ ValidExpenseArguments(last.amount, last.description, last.date))
       => /\ last.ok <=> last.id \in expenseIds(last.prev)
          /\ ~last.ok => last.err = NotFoundExpense
          /\ last.ok => OneExpenseUpdated(last.prev, categories, last.id,
                                          last.amount, last.description)
  /\ last.op = "deleteExpense"
       => /\ last.ok <=> last.id \in expenseIds(last.prev)
          /\ ~last.ok => last.err = NotFoundExpense
          /\ last.ok => OneExpenseDeleted(last.prev, categories, last.id)
  /\ \A expenseId \in ExpenseIdInputs :
       /\ \A arg \in ExpenseInputs(AmountInputs, DescriptionInputs, DateInputs) :
            ValidExpenseArguments(arg[1], arg[2], arg[3])
              => LET r == lsUpdateExpense(categories, expenseId, arg[1], arg[2], arg[3])
                 IN /\ r.ok <=> expenseId \in expenseIds(categories)
                    /\ ~r.ok => r.err = NotFoundExpense
                    /\ r.ok => OneExpenseUpdated(categories, r.stored, expenseId,
                                                 arg[1], arg[2])
       /\ LET r == lsDeleteExpense(categories, expenseId)
          IN /\ r.ok <=> expenseId \in expenseIds(categories)
             /\ ~r.ok => r.err = NotFoundExpense
             /\ r.ok => OneExpenseDeleted(categories, r.stored, expenseId)

\* an expense of the second of two categories that hold one expense each was
\* deleted, and the other expense is still there
C10_Witness ==
  /\ last.op = "deleteExpense" /\ last.ok
  /\ countExpenses(last.prev) = 2 /\ countExpenses(categories) = 1
  /\ \E i, j \in 1..Len(last.prev) :
       /\ i < j
       /\ Len(last.prev[i].expenses) = 1
       /\ Len(last.prev[j].expenses) = 1
       /\ last.prev[j].expenses[1].id = last.id

-----------------------------------------------------------------------------
\* C11: in every reachable ledger no two categories share an id and no two
\* expenses, of one category or of two, share an id
C11_IdsUnique ==
  /\ \A i, j \in 1..Len(categories) :
        i # j => categories[i].id # categories[j].id
  /\ \A i, j \in 1..Len(categories) :
        \A k \in 1..Len(categories[i].expenses), l \in 1..Len(categories[j].expenses) :
          <<i, k>> # <<j, l>> => categories[i].expenses[k].id # categories[j].expenses[l].id

-----------------------------------------------------------------------------
(* Properties of the tax calculator *)

ValidGrossPay(grossPay) == isFinite(grossPay) /\ grossPay.cents >= 0

\* C12: for every gross pay g >= 0 the breakdown of calculateNetPay has
\* |netPay + totalDeductions - grossPay| <= 0.01 and totalDeductions >= 0
C12_NetPayBalances ==
  (income.present /\ ValidGrossPay(income.grossPay)) =>
     /\ isFinite(income.netPay) /\ isFinite(income.totalDeductions)
     /\ LET difference == income.netPay.cents + income.totalDeductions.cents
                             - income.grossPay.cents
        IN difference <= 1 /\ 0 - difference <= 1
     /\ income.totalDeductions.cents >= 0

\* a gross pay in the third bracket has been calculated, with all three
\* deductions positive
C12_Witness ==
  /\ income.present /\ ValidGrossPay(income.grossPay)
  /\ income.grossPay.cents > BRACKET_2_LIMIT
  /\ income.sha.cents > 0 /\ income.payee.cents > 0 /\ income.housingLevy.cents > 0
  /\ income.netPay.cents + income.totalDeductions.cents = income.grossPay.cents

Min(a, b) == IF a <= b THEN a ELSE b

Max(a, b) == IF a >= b THEN a ELSE b

\* 20 * raw(g) in cents: 0.10 of the part up to 24000, 0.25 of the part
\* between 24000 and 32333, 0.30 of the part above 32333
RawTax20(g) ==
  2 * Min(g, BRACKET_1_LIMIT)
    + 5 * Max(0, Min(g, BRACKET_2_LIMIT) - BRACKET_1_LIMIT)
    + 6 * Max(0, g - BRACKET_2_LIMIT)

\* C13: for every gross pay g >= 0, calculatePAYEE(g) is
\* max(0, round2(raw(g) - 2400)); the limits 24000 and 32333 are taxed in the
\* lower bracket, calculatePAYEE(24000) = 0 and no g <= 24000 has a positive PAYE
C13_PayeeBrackets ==
  (income.present /\ ValidGrossPay(income.grossPay)) =>
     LET g == income.grossPay.cents
     IN /\ income.payee
             = Finite(Max(0, MathRound(RawTax20(g) - 20 * PERSONAL_RELIEF, 20)))
        /\ g <= BRACKET_1_LIMIT => income.payee = Finite(0)
        /\ g = BRACKET_2_LIMIT =>
             income.payee = Finite((BRACKET_2_LIMIT - BRACKET_1_LIMIT) \div 4)

\* PAYE has been calculated one cent above the second limit
C13_Witness ==
  /\ income.present
  /\ income.grossPay = Finite(BRACKET_2_LIMIT + 1)
  /\ income.payee.cents > 0

\* C14: calculateNetPay rounds at each stage: sha = round2(g * 0.0275),
\* housingLevy = round2(g * 0.015), totalDeductions = round2(sha + payee +
\* housingLevy), netPay = round2(g - totalDeductions); g = 0 gives zeros, and
\* g = 40000 gives 1100.00, 600.00, 4383.35, 6083.35 and 33916.65
C14_NetPayComposition ==
  (income.present /\ ValidGrossPay(income.grossPay)) =>
     LET g == income.grossPay.cents
     IN /\ income.sha = Finite(MathRound(g * 11, 400))
        /\ income.housingLevy = Finite(MathRound(g * 3, 200))
        /\ income.totalDeductions
             = Finite(income.sha.cents + income.payee.cents + income.housingLevy.cents)
        /\ income.netPay = Finite(g - income.totalDeductions.cents)
        /\ g = 0 =>
             /\ income.sha = Finite(0) /\ income.payee = Finite(0)
             /\ income.housingLevy = Finite(0)
             /\ income.totalDeductions = Finite(0) /\ income.netPay = Finite(0)
        /\ g = 4000000 =>
             /\ income.sha = Finite(110000) /\ income.housingLevy = Finite(60000)
             /\ income.payee = Finite(438335)
             /\ income.totalDeductions = Finite(608335)
             /\ income.netPay = Finite(3391665)

\* the breakdown of 40000 has been calculated
C14_Witness ==
  /\ income.present
  /\ income.grossPay = Finite(4000000)
  /\ income.netPay = Finite(3391665)

\* C15: calculateNetPay and the three deduction functions fail with
\* InvalidInput, returning no breakdown, when grossPay is negative or not finite
C15_InvalidInputRejected ==
  last.op = "calculateNetPay" =>
     (income.present => ValidGrossPay(income.grossPay))

-----------------------------------------------------------------------------
(* Properties of the budget status *)

\* the claimed classes of a category
OverBudget(category) == category.actualSpent > category.plannedAmount

NearLimit(category) ==
  /\ category.plannedAmount > 0
  /\ 5 * category.actualSpent >= 4 * category.plannedAmount
  /\ category.actualSpent <= category.plannedAmount

-----------------------------------------------------------------------------
(* Properties of the components *)

C19_CommitEqualsSpeculative ==
  last.write = "ok" =>
    /\ storage = last.shown
    /\ categories = last.shown

\* C19: when the durable write of a mutation succeeds, the stored copy is the
\* snapshot the ledger operation returned, which is on the screen since the
\* transition ended, so the screen does not change when the write is done; the
\* optimistic list shown for a created category is another list, the category
\* having a temp id in it.
C19_CommitEqualsReturned ==
  [][ last'.write = "ok" =>
        /\ storage' = last'.out
        /\ categories' = last'.out
        /\ optimisticCategories' = last'.out
        /\ last.write # "ok" => optimisticCategories' = optimisticCategories
        /\ last'.op = "createCategory" => last'.shown # last'.out
    ]_vars

\* a category was created, shown with a temp id, and its snapshot is stored
C19_Witness ==
  /\ last.write = "ok"
  /\ phase = "idle"
  /\ last.op = "createCategory"
  /\ storage = last.out
  /\ last.out # last.prev
  /\ \E i \in 1..Len(last.shown) : last.shown[i].id[1] = "temp"

LedgerOperations ==
  { "createCategory", "updateCategory", "deleteCategory",
    "addExpense", "updateExpense", "deleteExpense" }

\* C20: when the ledger operation of a handler throws, no speculative list is
\* shown, no durable write follows, and the message thrown is the message the
\* form shows.
C20_LedgerErrorPropagates ==
  [][ (last' # last /\ last'.op \in LedgerOperations /\ ~last'.ok)
        => /\ optimisticCategories' = categories
           /\ categories' = categories
           /\ storage' = storage
           /\ last'.write = "none"
           /\ phase' # "effect"
           /\ last'.err \in formErrors' \cup errors'
    ]_vars

\* C21: once the write of a mutation has been answered (saved or failed), the
\* answer stays and the write is not issued again for that mutation.
C21_WriteAnsweredOnce ==
  [][ (last.write # "none" /\ last'.write # "none")
        => /\ ~(phase = "effect" /\ storageAvailable)
           /\ last'.write = last.write
    ]_vars

\* C22: every successful mutation is applied to the ledger that the mutations
\* invoked before it have produced, and when the transition ends the list on
\* the screen is the result of the last of them, so that the visible ledger
\* is mn(...(m1(s0))...).
C22_AppliedInOrder ==
  [][ /\ (last' # last /\ last'.write = "none" /\ last'.ok
            /\ last'.op \in LedgerOperations)
          => /\ last'.inp = awaited
             /\ pending' = <<last'.out>>
      /\ (phase = "transition" /\ phase' # "transition") => categories' = awaited
    ]_vars

\* C22 (amended): every successful mutation is applied to the categories of
\* the last finished render; a mutation invoked when no other is in flight is
\* thereby applied to the result of those before it, one invoked while another
\* is in flight is applied to the same baseline as that one, and when the
\* transition ends the list becomes the result of the last successful call.
C22_AppliedToRenderedBaseline ==
  [][ /\ (last' # last /\ last'.write = "none" /\ last'.ok
            /\ last'.op \in LedgerOperations)
          => /\ last'.inp = categories
             /\ phase = "idle" => pending = <<>>
             /\ pending' = <<last'.out>>
      /\ (phase = "transition" /\ phase' # "transition" /\ pending # <<>>)
          => categories' = pending[1]
    ]_vars

\* two successful mutations were in flight together and the transition ended:
\* the list is the result of the second on the baseline of the first
C22_Witness ==
  /\ phase = "idle"
  /\ last.ok
  /\ last.earlier # <<>>
  /\ last.earlier[1].ok
  /\ last.earlier[1].out # last.earlier[1].prev
  /\ last.prev = last.earlier[1].prev
  /\ last.out # last.prev
  /\ categories = last.out

-----------------------------------------------------------------------------
(* Properties of loadData *)

\* C24: loadData never throws; it returns the parsed value when storage is
\* available, the key is valid, getItem answers and the text parses, and null
\* otherwise; on a text that does not parse it calls removeItem, and when that
\* throws it still returns null.
C24_LoadDataNeverThrows ==
  last.op = "loadData" =>
    LET r == last.out
        available == last.shown[1]
        getItemThrows == last.shown[2]
        removeItemThrows == last.shown[3]
        item == last.inp
        readable == /\ available /\ ~getItemThrows
                    /\ Len(trim(last.name)) > 0
                    /\ item # <<>>
                    /\ Len(trim(item[1])) > 0
        parses == readable /\ JSONparse(item[1]).ok
    IN /\ ~r.threw
       /\ IF parses THEN r.value = JSONparse(item[1]).value ELSE r.value = <<>>
       /\ r.removed <=> (readable /\ ~parses)
       /\ storage = IF r.removed /\ ~removeItemThrows THEN <<>> ELSE item

\* a corrupted text was found and removeItem threw
C24_Witness ==
  /\ last.op = "loadData"
  /\ last.inp = << <<"{">> >>
  /\ last.out.removed
  /\ last.shown[3]
  /\ storage = last.inp
  /\ last.out.value = <<>>

-----------------------------------------------------------------------------
(* Properties of the ledger, continued *)

\* the index of the category the last expense call touched
TouchedCategory ==
  CASE last.op = "addExpense" ->
         CHOOSE i \in 1..Len(categories) : categories[i].id = last.id
    [] last.op = "updateExpense" -> locateExpense(categories, last.id)[1]
    [] last.op = "deleteExpense" -> locateExpense(last.prev, last.id)[1]

\* C25: after a successful addExpense, updateExpense or deleteExpense, on any
\* ledger and whatever actualSpent the category had stored, the actualSpent of
\* the category touched is the sum of the amounts of its expenses.
C25_ExpenseCallsHeal ==
  (last.ok /\ last.op \in {"addExpense", "updateExpense", "deleteExpense"}) =>
    LET c == categories[TouchedCategory]
    IN c.actualSpent = SumOfAmounts(c.expenses)

\* a category whose stored actualSpent was wrong has been touched
C25_Witness ==
  /\ last.ok
  /\ last.op \in {"addExpense", "updateExpense", "deleteExpense"}
  /\ LET before == last.prev[TouchedCategory]
     IN before.actualSpent # SumOfAmounts(before.expenses)
  /\ categories[TouchedCategory].actualSpent
       = SumOfAmounts(categories[TouchedCategory].expenses)

-----------------------------------------------------------------------------
(* Properties of withRetry *)

\* an AppError that isRecoverableError refuses
NonRecoverable(answer) ==
  /\ ~answer.resolved
  /\ answer.error[1].hasType
  /\ answer.error[1].type = "storage"
  /\ answer.error[1].code = "STORAGE_UNAVAILABLE"

\* the call is over and was made as the claim says
RetryContract ==
  LET n == retry.calls
      answers == retry.answers
  IN /\ retry.at \in {"resolved", "rejected"}
     /\ n >= 1 /\ n <= retry.maxRetries /\ n = Len(answers)
     /\ \A i \in 1..(n - 1) : ~answers[i].resolved /\ ~NonRecoverable(answers[i])
     /\ retry.at = "resolved" =>
          answers[n].resolved /\ retry.result = <<answers[n].value>>
     /\ retry.at = "rejected" =>
          /\ ~answers[n].resolved
          /\ retry.lastError = answers[n].error
          /\ n = retry.maxRetries \/ NonRecoverable(answers[n])

\* C26: a call of withRetry with maxRetries >= 1 ends, after at least one and
\* at most maxRetries calls of fn: with the value of the first call that
\* succeeded, or with the error of the last call made, which is the
\* maxRetries-th or the first that failed with a non-recoverable AppError.
C26_WithRetryTerminates ==
  (retry.at = "call" /\ retry.calls = 0) ~> RetryContract

\* the call ended early on a non-recoverable error, after one retry
C26_Witness ==
  /\ retry.at = "rejected"
  /\ retry.calls = 2
  /\ retry.maxRetries = 3
  /\ retry.waited = 1
  /\ NonRecoverable(retry.answers[2])

-----------------------------------------------------------------------------
(* Properties of the incomes table *)

\* C27: after a saveIncome that returned, exactly one income of the user has
\* is_current = true, it is the row saved last for the user, and
\* getCurrentIncome returns it.
C27_OneCurrentIncome ==
  (last.op = "saveIncome" /\ last.ok) =>
    LET userId == last.user[1]
        mine == { row \in incomes : row.user_id = userId }
        current == currentIncomes(incomes, userId)
    IN /\ Cardinality(current) = 1
       /\ \A row \in current : \A other \in mine : other.created_at <= row.created_at
       /\ getCurrentIncome(incomes, last.user, FALSE).out = last.out

-----------------------------------------------------------------------------
(* Frame of the ledger operations *)

\* the categories of the snapshot other than the one at index k, in order
exceptAt(cats, k) == [i \in 1..(Len(cats) - 1) |-> IF i < k THEN cats[i] ELSE cats[i + 1]]

\* the index of the category the last successful call addressed, in last.prev
TargetIndex ==
  CASE last.op \in {"updateCategory", "deleteCategory", "addExpense"} ->
         CHOOSE i \in 1..Len(last.prev) : last.prev[i].id = last.id
    [] last.op \in {"updateExpense", "deleteExpense"} ->
         locateExpense(last.prev, last.id)[1]

\* C28: a successful ledger operation changes only its target.  createCategory
\* appends the new category after the existing ones, which are kept;
\* updateCategory keeps the id, actualSpent and expenses of the addressed
\* category; the expense operations keep its id, name and plannedAmount;
\* deleteCategory removes the addressed category only.  Every other category is
\* equal to its previous value, at the same place in the order.
C28_OnlyTargetChanges ==
  (last.ok /\ last.op # "none") =>
    LET before == last.prev
        after == categories
    IN CASE last.op = "createCategory" ->
              /\ Len(after) = Len(before) + 1
              /\ SubSeq(after, 1, Len(before)) = before
         [] last.op = "deleteCategory" ->
              after = exceptAt(before, TargetIndex)
         [] last.op = "updateCategory" ->
              /\ Len(after) = Len(before)
              /\ \A i \in 1..Len(before) : i # TargetIndex => after[i] = before[i]
              /\ after[TargetIndex].id = before[TargetIndex].id
              /\ after[TargetIndex].actualSpent = before[TargetIndex].actualSpent
              /\ after[TargetIndex].expenses = before[TargetIndex].expenses
         [] OTHER ->
              /\ Len(after) = Len(before)
              /\ \A i \in 1..Len(before) : i # TargetIndex => after[i] = before[i]
              /\ after[TargetIndex].id = before[TargetIndex].id
              /\ after[TargetIndex].name = before[TargetIndex].name
              /\ after[TargetIndex].plannedAmount = before[TargetIndex].plannedAmount

\* a category was created after one that holds an expense
C28_Witness ==
  /\ last.ok
  /\ last.op = "createCategory"
  /\ Len(last.prev) >= 1
  /\ \E i \in 1..Len(last.prev) : last.prev[i].expenses # <<>>
  /\ categories[Len(categories)].id = generateCategoryId(last.clock)

-----------------------------------------------------------------------------
(* Referential integrity of the expenses *)

\* C29: in every ledger snapshot reached, each expense in the expenses of a
\* category has that category's id as its categoryId, and no other category
\* has that id: the expense belongs to exactly one existing category.
C29_ExpenseBelongsToItsCategory ==
  \A i \in 1..Len(categories) :
    \A k \in 1..Len(categories[i].expenses) :
      LET expense == categories[i].expenses[k]
      IN /\ expense.categoryId = categories[i].id
         /\ \A j \in 1..Len(categories) :
              categories[j].id = expense.categoryId => j = i

-----------------------------------------------------------------------------
(* Properties of the provider's load and auto-save *)

\* C30 as stated: saveData is invoked only while isLoading is false and
\* storage is available.
C30_SavesOnlyAfterLoad ==
  last.saved # <<>> => (~last.loading /\ last.available)

\* C30: the auto-save effect invokes saveData only while isLoading is false and
\* storageAvailable is true, with the state on the screen; the one other write
\* is loadInitialData's own, of the default state, when storage is available
\* and loadData returned nothing.  When a load has returned, isLoading is
\* false, the list shown is not empty, and the placeholder is not in storage
\* unless it was there before the load; before the load nothing is written.
C30_PlaceholderNeverSaved ==
  /\ (last.op = "autoSave" /\ last.saved # <<>>) =>
       /\ ~last.loading /\ last.available
       /\ last.saved = <<AppState(income, categories)>>
  /\ (last.op \in {"mount", "retryDataLoad"} /\ last.saved # <<>>) =>
       /\ last.available
       /\ last.saved = <<AppState(NoIncome, initializeDefaultCategories)>>
  /\ last.op \in {"mount", "retryDataLoad"} =>
       /\ ~isLoading
       /\ categories # <<>>
       /\ storage = <<Placeholder>> => last.inp = <<Placeholder>>
  /\ (isLoading \/ phase = "mount") =>
       (last.saved = <<>> /\ categories = <<>> /\ ~storageAvailable)

\* the page was opened on a saved state whose only category is broken: the
\* defaults are shown and the auto-save has stored them
C30_Witness ==
  /\ last.op = "autoSave"
  /\ last.write = "ok"
  /\ last.inp = <<AppState(NoIncome, <<BrokenCategory>>)>>
  /\ categories = initializeDefaultCategories
  /\ storage = <<AppState(NoIncome, initializeDefaultCategories)>>

====
